---------------------------- MODULE Spec2Model ----------------------------
(***************************************************************************)
(* A model of the dual-protocol (HTTP / SOCKS5) proxy with its monitoring  *)
(* registry and WebSocket broadcast worker (main.go of the repository).    *)
(*                                                                         *)
(* Seven specifications share the variables:                               *)
(*   Spec           connection handlers, copy loops and the registry, for  *)
(*                  MaxConns concurrent connections with small inputs;     *)
(*   SpecBytes      one connection with the full set of client streams,    *)
(*                  for the byte-exact framing and relay properties;       *)
(*   SpecBytesLive  SpecBytes with the connection's goroutines scheduled   *)
(*                  fairly, for the termination of a connection;           *)
(*   SpecBroadcast  registry mutators, the broadcast worker, its ticker    *)
(*                  and one WebSocket subscriber, with elapsing time;      *)
(*   SpecFanout     the broadcast worker publishing to MaxSubs WebSocket   *)
(*                  subscribers, with admits as the only mutations;        *)
(*   SpecRegistry   the registry driven by its callers (admit, account,    *)
(*                  release, snapshot) with elapsing time, for the rates;  *)
(*   SpecLocks      the goroutines statement by statement, with the locks  *)
(*                  they take (stats.mutex, wsMutex), for the locking.     *)
(***************************************************************************)
EXTENDS Integers, Sequences, FiniteSets, TLC

(***************************************************************************)
(* Bounds of the model.                                                    *)
(***************************************************************************)
\* number of connection slots the listener accepts in Spec
MaxConns == 2
\* largest value of the wall clock read by generateConnectionID in Spec
MaxClock == 1
\* capacity of the wake channel, scaled down from the program's 100
ChanCap == 2
\* time units per second in SpecBroadcast, SpecFanout and SpecRegistry
UnitsPerSecond == 2
\* SpecRegistry: the clock's last value, in units of 1/UnitsPerSecond second,
\* and the number of updateBandwidth calls
MaxTime == 6
MaxAccounts == 3
\* SpecRegistry: the number of requests to /api/stats
MaxRequests == 1
\* number of admits the mutators of SpecBroadcast perform
MaxAdmits == 2
\* number of WebSocket subscribers in SpecFanout
MaxSubs == 2
\* mutators that may sit between their registry update and their signal
MaxInFlight == 1

(***************************************************************************)
(* Program constants.                                                      *)
(***************************************************************************)
socks5Version == 5
noAuth == 0
connectCmd == 1
ipv4Addr == 1
domainAddr == 3
ipv6Addr == 4

Conns == 1 .. MaxConns
Subs == 1 .. MaxSubs
\* time.NewTicker(1 * time.Second)
TickerPeriod == UnitsPerSecond
Dirs == {"c2u", "u2c"}

(***************************************************************************)
(* Sequence helpers.                                                       *)
(***************************************************************************)
Take(s, n) == SubSeq(s, 1, n)
Drop(s, n) == SubSeq(s, n + 1, Len(s))
IsPrefix(p, s) == Len(p) <= Len(s) /\ Take(s, Len(p)) = p
Max(a, b) == IF a >= b THEN a ELSE b
Min(a, b) == IF a <= b THEN a ELSE b

(***************************************************************************)
(* Wire bytes.  SOCKS5 bytes are the numbers 0..255.  The text of the HTTP *)
(* protocol is abstracted to one number per syntactic unit: a method byte  *)
(* ("C" for CONNECT, "G" for GET), host bytes, and 10 for the blank line   *)
(* that ends the header; the fixed reply texts are single numbers above    *)
(* the byte range.                                                         *)
(***************************************************************************)
MethodCONNECT == 67
MethodGET == 71
HeaderEnd == 10
\* "HTTP/1.1 200 Connection established\r\n\r\n"
Reply200 == 1200
\* the 502 Bad Gateway response written by resp.Write
Reply502 == 1502
\* the User-Agent header line req.Write adds to a request that has none
UserAgentLine == 1001

MethodReply == <<socks5Version, noAuth>>
Socks5Success == <<5, 0, 0, 1, 0, 0, 0, 0, 0, 0>>
Socks5HostUnreachable == <<5, 4, 0, 1, 0, 0, 0, 0, 0, 0>>

(***************************************************************************)
(* Client inputs: the bytes of the protocol preamble (hdr) and the bytes   *)
(* the client sends behind it (payload), from an allowed or a denied host. *)
(***************************************************************************)
\* an admission set that holds every client host
AllowedIPsEveryHost == {"127.0.0.1", "10.9.9.9"}

\* allowedIPs, as loadConfig builds it from the configuration
AllowedIPs == {"127.0.0.1"}
ClientIPs == {"127.0.0.1", "10.9.9.9"}

Hello == <<5, 1, 0>>
HelloNoMethods == <<5, 0>>
HelloTwoMethods == <<5, 2, 1, 2>>
ReqIPv4 == <<5, 1, 0, 1, 127, 0, 0, 1, 0, 80>>
ReqDomain == <<5, 1, 0, 3, 2, 104, 105, 1, 187>>
ReqIPv6 == <<5, 1, 0, 4, 0, 0, 0, 0, 0, 0, 0, 0, 0, 0, 0, 0, 0, 0, 0, 1, 0, 80>>
ReqBind == <<5, 2, 0, 1, 127, 0, 0, 1, 0, 80>>
ReqUdpAssociate == <<5, 3, 0, 1, 127, 0, 0, 1, 0, 80>>
ReqBadAtyp == <<5, 1, 0, 9, 127, 0, 0, 1, 0, 80>>
ReqBadVersion == <<4, 1, 0, 1, 127, 0, 0, 1, 0, 80>>
ReqEmptyDomain == <<5, 1, 0, 3, 0, 0, 80>>
HttpConnect == <<MethodCONNECT, 104, HeaderEnd>>
HttpGet == <<MethodGET, 104, HeaderEnd>>

In(h, p, ok) == [hdr |-> h, payload |-> p, wellFormed |-> ok]

\* the streams of SpecBytes
ByteInputs ==
    { In(Hello \o r, p, TRUE) : r \in {ReqIPv4, ReqDomain, ReqIPv6}, p \in {<<>>, <<1, 2>>} }
    \cup { In(HelloNoMethods \o ReqIPv4, <<1, 2>>, TRUE),
           In(HelloTwoMethods \o ReqDomain, <<1, 2>>, TRUE),
           In(Hello \o ReqEmptyDomain, <<1>>, TRUE) }
    \cup { In(Hello \o r, <<>>, FALSE) : r \in {ReqBind, ReqUdpAssociate, ReqBadAtyp, ReqBadVersion} }
    \cup { In(<<5, 1>>, <<>>, FALSE), In(Hello \o <<5, 1, 0, 3, 4, 104>>, <<>>, FALSE),
           In(<<>>, <<>>, FALSE), In(<<9, 9>>, <<>>, FALSE) }
    \cup { In(h, p, TRUE) : h \in {HttpConnect, HttpGet}, p \in {<<>>, <<1, 2>>} }

\* the streams of Spec
ConnInputs ==
    { In(Hello \o ReqIPv4, <<>>, TRUE), In(HttpConnect, <<1>>, TRUE),
      In(HttpGet, <<>>, TRUE), In(Hello \o ReqBind, <<>>, FALSE) }

\* what an upstream sends back
UpstreamInputs == {<<>>, <<7, 8>>}
UpstreamInputsSmall == {<<7>>}

VARIABLES
    \* wall clock (time.Now) as read by generateConnectionID
    now,
    \* the registry: stats.ActiveConnections and the totals
    active, TotalConnections, TotalBytesReceived, TotalBytesSent,
    \* history: the number of snapshots handleAPI has taken and encoded
    snap,
    \* number of signals waiting in broadcastChan
    broadcastChan,
    \* per connection: position of handleConnection / handleHTTP / handleSocks5
    hpc,
    \* per connection: the input chosen for it, its id, protocol, request and target
    input, clientIP, connID, proto, method, address,
    \* per connection: client bytes not yet read from the socket, bufio buffer
    cli, rbuf,
    \* per connection: upstream bytes not yet read, what the upstream sends in all
    up, upData,
    \* per connection: bytes delivered to the client and to the upstream
    toCli, toUp,
    \* per connection: whether the peer closes after its data
    cliEOF, upEOF,
    \* per connection: sockets closed by the proxy
    cliClosed, upClosed,
    \* per connection and direction: position of copyWithTracking, the chunk read,
    \* the result of the write (nw and whether the loop breaks after accounting)
    lpc, chunk, wres,
    \* history: per connection and direction, bytes written by the loop
    wrote,
    \* history: per id, the calls made on the registry
    hist,
    \* the broadcast worker: its position, pendingUpdate, the time since
    \* lastBroadcast (saturating at one second), the marshalled message
    wpc, pendingUpdate, sinceLast, msg,
    \* the ticker: time since its last tick, and whether a tick waits in ticker.C
    phase, tickerChan,
    \* the subscriber set wsClients; per subscriber, the position of
    \* handleWebSocket, its seed message, and the largest total_connections it
    \* has received in a message (-1 before its first message)
    wsClients, spc, seedMsg, got,
    \* who holds wsMutex: "free", or "worker" during the writes of broadcastUpdate
    wsMutex,
    \* broadcastUpdate: the subscribers of its list not yet written, and the
    \* subscriber its WriteMessage is writing to (0 when none)
    todo, cur,
    \* history: subscribers the current publication has written, and
    \* subscribers a publication's failed write has closed
    served, failed,
    \* history, per subscriber: the total its seed message reported (-1 before
    \* the seed is written and after the check below is done), and whether a
    \* connection was admitted after the seed and no message has come since
    watch,
    \* mutators that have updated the registry and not yet signalled
    inFlight,
    \* history: the registry changed after the last snapshot the worker took
    stale,
    \* per task, as the lock-level specification runs it: the statement it is
    \* at, and the locks it holds (stats.mutex for writing or reading, wsMutex)
    tpc, locks

regVars == <<active, TotalConnections, TotalBytesReceived, TotalBytesSent>>
connVars == <<hpc, input, clientIP, connID, proto, method, address, cli, rbuf, up, upData,
              toCli, toUp, cliEOF, upEOF, cliClosed, upClosed, lpc, chunk, wres, wrote, hist>>
bcastVars == <<wpc, pendingUpdate, sinceLast, msg, phase, tickerChan, wsClients, spc, seedMsg,
               got, wsMutex, todo, cur, served, failed, watch, inFlight, stale>>
lockVars == <<tpc, locks>>
vars == <<now, snap, regVars, broadcastChan, connVars, bcastVars, lockVars>>


Ids == (0 .. MaxClock) \X (0 .. MaxConns)

(***************************************************************************)
(* The registry (stats) and the wake channel.                              *)
(***************************************************************************)
\* time.Time{}, the value IsZero() recognises
ZeroTime == -1

\* rates are bytes per second as multiples of 1/RateScale: every quotient of
\* a byte count by a duration of up to MaxTime units is such a multiple
RECURSIVE Factorial(_)
Factorial(n) == IF n <= 1 THEN 1 ELSE n * Factorial(n - 1)
RateScale == Factorial(MaxTime)

\* float64(bytes) / windowDuration, windowDuration = d units of time
Rate(bytes, d) == (bytes * UnitsPerSecond * RateScale) \div d

\* a record of addConnection that starts with bytes already counted
NewRecordCounted(ip, protocol, destination) ==
    [ClientIP |-> ip, Protocol |-> protocol, Destination |-> destination,
     BytesReceived |-> 1, BytesSent |-> 1, BandwidthIn |-> 0, BandwidthOut |-> 0,
     WindowBytesIn |-> 0, WindowBytesOut |-> 0,
     WindowStartTime |-> ZeroTime, LastUpdateTime |-> ZeroTime]

\* the ConnectionInfo addConnection builds (StartTime, Duration and
\* DomainName are left out: nothing reads them but the JSON encoder)
NewRecord(ip, protocol, destination) ==
    [ClientIP |-> ip, Protocol |-> protocol, Destination |-> destination,
     BytesReceived |-> 0, BytesSent |-> 0, BandwidthIn |-> 0, BandwidthOut |-> 0,
     WindowBytesIn |-> 0, WindowBytesOut |-> 0,
     WindowStartTime |-> ZeroTime, LastUpdateTime |-> ZeroTime]

\* a send on broadcastChan that waits for room in the channel
SignalBlocking ==
    /\ broadcastChan < ChanCap
    /\ broadcastChan' = broadcastChan + 1

\* the non-blocking send on broadcastChan: dropped when the channel is full
Signal ==
    broadcastChan' = IF broadcastChan < ChanCap THEN broadcastChan + 1 ELSE broadcastChan

\* fmt.Sprintf("conn_%d_%d", time.Now().UnixNano(), len(stats.ActiveConnections))
generateConnectionID == <<now, Cardinality(DOMAIN active)>>

\* an addConnection that reports the number of records in the map as the total
addConnectionCountsRecords(id, ip, protocol, destination) ==
    /\ active' = [i \in DOMAIN active \cup {id} |->
                    IF i = id THEN NewRecord(ip, protocol, destination) ELSE active[i]]
    /\ TotalConnections' = Cardinality(DOMAIN active \cup {id})
    /\ UNCHANGED <<TotalBytesReceived, TotalBytesSent>>

\* the locked part of addConnection
addConnectionUpdate(id, ip, protocol, destination) ==
    /\ active' = [i \in DOMAIN active \cup {id} |->
                    IF i = id THEN NewRecord(ip, protocol, destination) ELSE active[i]]
    /\ TotalConnections' = TotalConnections + 1
    /\ UNCHANGED <<TotalBytesReceived, TotalBytesSent>>

addConnection(id, ip, protocol, destination) ==
    /\ addConnectionUpdate(id, ip, protocol, destination)
    /\ Signal

\* the locked part of removeConnection
removeConnectionUpdate(id) ==
    /\ active' = [i \in DOMAIN active \ {id} |-> active[i]]
    /\ UNCHANGED <<TotalConnections, TotalBytesReceived, TotalBytesSent>>

removeConnection(id) ==
    /\ removeConnectionUpdate(id)
    /\ Signal

\* an update of the record that counts the bytes and leaves the rates alone
AccountedNoRate(conn, bytesReceived, bytesSent, t) ==
    [conn EXCEPT !.BytesReceived = @ + bytesReceived, !.BytesSent = @ + bytesSent,
                 !.LastUpdateTime = t]

\* an update of the record that computes the rates and never starts a new window
AccountedKeepsWindow(conn, bytesReceived, bytesSent, t) ==
    LET first == conn.WindowStartTime = ZeroTime
        start == IF first THEN t ELSE conn.WindowStartTime
        winIn == conn.WindowBytesIn + bytesReceived
        winOut == conn.WindowBytesOut + bytesSent
    IN  [conn EXCEPT !.BytesReceived = @ + bytesReceived, !.BytesSent = @ + bytesSent,
                     !.LastUpdateTime = t,
                     !.BandwidthIn = IF t - start > 0 THEN Rate(winIn, t - start) ELSE @,
                     !.BandwidthOut = IF t - start > 0 THEN Rate(winOut, t - start) ELSE @,
                     !.WindowStartTime = start,
                     !.WindowBytesIn = winIn,
                     !.WindowBytesOut = winOut]

\* an update of the record that begins the window anew, at the time of the
\* account, whenever the window holds no bytes
AccountedRestartsWindow(conn, bytesReceived, bytesSent, t) ==
    LET first == \/ conn.WindowStartTime = ZeroTime
                 \/ conn.WindowBytesIn = 0 /\ conn.WindowBytesOut = 0
        start == IF first THEN t ELSE conn.WindowStartTime
        winIn == (IF first THEN 0 ELSE conn.WindowBytesIn) + bytesReceived
        winOut == (IF first THEN 0 ELSE conn.WindowBytesOut) + bytesSent
        windowDuration == t - start
    IN  [conn EXCEPT !.BytesReceived = @ + bytesReceived, !.BytesSent = @ + bytesSent,
                     !.LastUpdateTime = t,
                     !.BandwidthIn = IF windowDuration > 0 THEN Rate(winIn, windowDuration) ELSE @,
                     !.BandwidthOut = IF windowDuration > 0 THEN Rate(winOut, windowDuration) ELSE @,
                     !.WindowStartTime = IF windowDuration >= UnitsPerSecond THEN t ELSE start,
                     !.WindowBytesIn = IF windowDuration >= UnitsPerSecond THEN 0 ELSE winIn,
                     !.WindowBytesOut = IF windowDuration >= UnitsPerSecond THEN 0 ELSE winOut]

\* updateBandwidth's update of the record conn at time t
Accounted(conn, bytesReceived, bytesSent, t) ==
    LET first == conn.WindowStartTime = ZeroTime
        start == IF first THEN t ELSE conn.WindowStartTime
        winIn == (IF first THEN 0 ELSE conn.WindowBytesIn) + bytesReceived
        winOut == (IF first THEN 0 ELSE conn.WindowBytesOut) + bytesSent
        windowDuration == t - start
    IN  [conn EXCEPT
           !.BytesReceived = @ + bytesReceived,
           !.BytesSent = @ + bytesSent,
           !.LastUpdateTime = t,
           !.BandwidthIn = IF windowDuration > 0 THEN Rate(winIn, windowDuration) ELSE @,
           !.BandwidthOut = IF windowDuration > 0 THEN Rate(winOut, windowDuration) ELSE @,
           !.WindowStartTime = IF windowDuration >= UnitsPerSecond THEN t ELSE start,
           !.WindowBytesIn = IF windowDuration >= UnitsPerSecond THEN 0 ELSE winIn,
           !.WindowBytesOut = IF windowDuration >= UnitsPerSecond THEN 0 ELSE winOut]

\* an updateBandwidth that counts the bytes on the record only
TotalsAfterNone(total, bytes) == total

\* stats.TotalBytesReceived += bytesReceived, stats.TotalBytesSent += bytesSent
TotalsAfter(total, bytes) == total + bytes

\* an updateBandwidth that adds to the totals whether or not the id exists
updateBandwidthAnyId(id, bytesReceived, bytesSent) ==
    /\ active' = IF id \in DOMAIN active
                 THEN [active EXCEPT ![id] = Accounted(@, bytesReceived, bytesSent, now)]
                 ELSE active
    /\ TotalBytesReceived' = TotalBytesReceived + bytesReceived
    /\ TotalBytesSent' = TotalBytesSent + bytesSent
    /\ UNCHANGED TotalConnections
    /\ Signal

updateBandwidth(id, bytesReceived, bytesSent) ==
    /\ IF id \in DOMAIN active
       THEN /\ active' = [active EXCEPT ![id] = Accounted(@, bytesReceived, bytesSent, now)]
            /\ TotalBytesReceived' = TotalsAfter(TotalBytesReceived, bytesReceived)
            /\ TotalBytesSent' = TotalsAfter(TotalBytesSent, bytesSent)
            /\ UNCHANGED TotalConnections
       ELSE UNCHANGED regVars
    /\ Signal

(***************************************************************************)
(* The protocol engines, as functions of the bytes the client has sent.    *)
(***************************************************************************)
\* the bytes the bufio reader and the socket hold, in order
Stream(c) == rbuf[c] \o cli[c]

\* a negotiation that refuses a client that does not offer "no authentication"
MethodsLenRequiresNoAuth(s) ==
    IF Len(s) < 2 THEN -2
    ELSE IF s[1] # socks5Version THEN -1
    ELSE IF Len(s) < 2 + s[2] THEN -2
    ELSE IF \A i \in 3 .. 2 + s[2] : s[i] # noAuth THEN -1
    ELSE 2 + s[2]

\* handleSocks5, method negotiation: bytes consumed, -1 for a wrong version,
\* -2 when the stream ends before the read is complete
MethodsLen(s) ==
    IF Len(s) < 2 THEN -2
    ELSE IF s[1] # socks5Version THEN -1
    ELSE IF Len(s) < 2 + s[2] THEN -2
    ELSE 2 + s[2]

\* handleSocks5, the address of the request: bytes of the address field by
\* address type, -1 for an unknown type, -2 when the length byte is missing
AddrLen(s) ==
    IF s[4] = ipv4Addr THEN 4
    ELSE IF s[4] = domainAddr THEN (IF Len(s) < 5 THEN -2 ELSE 1 + s[5])
    ELSE IF s[4] = ipv6Addr THEN 16
    ELSE -1

\* a request check that accepts every command
RequestLenAnyCommand(s) ==
    IF Len(s) < 4 THEN -2
    ELSE IF s[1] # socks5Version THEN -1
    ELSE IF AddrLen(s) < 0 THEN AddrLen(s)
    ELSE IF Len(s) < 4 + AddrLen(s) + 2 THEN -2
    ELSE 4 + AddrLen(s) + 2

\* handleSocks5, the request: bytes consumed; -1 when the request is
\* rejected and -2 when the stream ends before a read is complete (in both
\* cases the handler returns before it has a destination)
RequestLen(s) ==
    IF Len(s) < 4 THEN -2
    ELSE IF s[1] # socks5Version \/ s[2] # connectCmd THEN -1
    ELSE IF AddrLen(s) < 0 THEN AddrLen(s)
    ELSE IF Len(s) < 4 + AddrLen(s) + 2 THEN -2
    ELSE 4 + AddrLen(s) + 2

\* host and port of a request RequestLen accepts
RequestAddress(s) ==
    LET n == RequestLen(s)
        a == IF s[4] = domainAddr THEN SubSeq(s, 6, n - 2) ELSE SubSeq(s, 5, n - 2)
    IN  [atyp |-> s[4], host |-> a, port |-> s[n - 1] * 256 + s[n]]

\* http.ReadRequest: position of the blank line that ends the header, -1
\* when the bytes are no HTTP request, -2 when the stream ends in the header
HeaderLen(s) ==
    IF Len(s) = 0 THEN -2
    ELSE IF s[1] \notin {MethodCONNECT, MethodGET} THEN -1
    ELSE IF \E i \in 1 .. Len(s) : s[i] = HeaderEnd
         THEN CHOOSE i \in 1 .. Len(s) : s[i] = HeaderEnd /\ \A j \in 1 .. i - 1 : s[j] # HeaderEnd
         ELSE -2

\* req.Host with the default port added by net.JoinHostPort(address, "80")
HttpAddress(s) ==
    [atyp |-> domainAddr, host |-> SubSeq(s, 2, HeaderLen(s) - 1), port |-> 80]

\* req.Write: the request as Go's serializer writes it to the upstream
SerializeRequest(m, host) == <<m>> \o host \o <<UserAgentLine, HeaderEnd>>

\* A read of n bytes through the bufio reader leaves it holding what it held
\* beyond the n bytes when that was enough, and otherwise whatever had arrived
\* on the socket when it filled its buffer: any prefix of the rest.
Buffered(c, n) ==
    IF Len(rbuf[c]) >= n THEN {Len(rbuf[c]) - n} ELSE 0 .. (Len(Stream(c)) - n)

Consume(c, n, k) ==
    /\ rbuf' = [rbuf EXCEPT ![c] = SubSeq(Stream(c), n + 1, n + k)]
    /\ cli' = [cli EXCEPT ![c] = Drop(Stream(c), n + k)]


(***************************************************************************)
(* handleConnection, handleHTTP, handleSocks5.                             *)
(***************************************************************************)
NoId == <<-1, -1>>
NoAddress == [atyp |-> 0, host |-> <<>>, port |-> 0]
Terminal(l) == l \in {"eof", "rerr", "werr"}

Called(id, what) == hist' = [hist EXCEPT ![id][what] = @ + 1]

\* handleConnection up to the Peek: the allow-list check and the connection id
Accept(c, Inputs, Eofs) ==
    /\ hpc[c] = "idle"
    /\ \E in \in Inputs, ip \in ClientIPs, e \in Eofs :
          /\ input' = [input EXCEPT ![c] = in]
          /\ clientIP' = [clientIP EXCEPT ![c] = ip]
          /\ cli' = [cli EXCEPT ![c] = in.hdr \o in.payload]
          /\ cliEOF' = [cliEOF EXCEPT ![c] = e]
          /\ IF ip \in AllowedIPs
             THEN /\ connID' = [connID EXCEPT ![c] = generateConnectionID]
                  /\ hpc' = [hpc EXCEPT ![c] = "peek"]
             ELSE /\ hpc' = [hpc EXCEPT ![c] = "closeConn"]
                  /\ UNCHANGED connID
    /\ UNCHANGED <<bcastVars, lockVars>>
    /\ UNCHANGED <<now, snap, regVars, broadcastChan, proto, method, address, rbuf, up, upData,
                   toCli, toUp, upEOF, cliClosed, upClosed, lpc, chunk, wres, wrote, hist>>

\* a dispatcher that hands every connection to the HTTP engine
EngineAlwaysHTTP(b) == "HTTP"

\* firstByte[0] == socks5Version
Engine(b) == IF b = socks5Version THEN "SOCKS5" ELSE "HTTP"

\* reader.Peek(1) and the choice of the engine
Peek(c) ==
    /\ hpc[c] = "peek"
    /\ \/ /\ cli[c] = <<>>
          /\ cliEOF[c]
          /\ hpc' = [hpc EXCEPT ![c] = "closeConn"]
          /\ UNCHANGED <<rbuf, cli, proto>>
       \/ /\ cli[c] # <<>>
          /\ \E k \in 1 .. Len(cli[c]) : Consume(c, 0, k)
          /\ proto' = [proto EXCEPT ![c] = Engine(cli[c][1])]
          /\ hpc' = [hpc EXCEPT ![c] = IF Engine(cli[c][1]) = "SOCKS5" THEN "socks5_methods" ELSE "http"]
    /\ UNCHANGED <<bcastVars, lockVars>>
    /\ UNCHANGED <<now, snap, regVars, broadcastChan, input, clientIP, connID, method, address, up,
                   upData, toCli, toUp, cliEOF, upEOF, cliClosed, upClosed, lpc, chunk, wres,
                   wrote, hist>>

\* handleSocks5: the handshake and the method reply
Socks5Methods(c) ==
    /\ hpc[c] = "socks5_methods"
    /\ LET n == MethodsLen(Stream(c))
       IN  \/ /\ n = -1 \/ (n = -2 /\ cliEOF[c])
              /\ hpc' = [hpc EXCEPT ![c] = "closeConn"]
              /\ UNCHANGED <<rbuf, cli, toCli>>
           \/ /\ n >= 0
              /\ \E k \in Buffered(c, n) : Consume(c, n, k)
              /\ toCli' = [toCli EXCEPT ![c] = @ \o MethodReply]
              /\ hpc' = [hpc EXCEPT ![c] = "socks5_request"]
    /\ UNCHANGED <<bcastVars, lockVars>>
    /\ UNCHANGED <<now, snap, regVars, broadcastChan, input, clientIP, connID, proto, method, address,
                   up, upData, toUp, cliEOF, upEOF, cliClosed, upClosed, lpc, chunk, wres,
                   wrote, hist>>

\* handleSocks5: the request, the address, the port, and addConnection
Socks5Request(c) ==
    /\ hpc[c] = "socks5_request"
    /\ LET n == RequestLen(Stream(c))
       IN  \/ /\ n = -1 \/ (n = -2 /\ cliEOF[c])
              /\ hpc' = [hpc EXCEPT ![c] = "closeConn"]
              /\ UNCHANGED <<rbuf, cli, address, regVars, broadcastChan, hist>>
           \/ /\ n >= 0
              /\ \E k \in Buffered(c, n) : Consume(c, n, k)
              /\ address' = [address EXCEPT ![c] = RequestAddress(Stream(c))]
              /\ addConnection(connID[c], clientIP[c], "SOCKS5", RequestAddress(Stream(c)))
              /\ Called(connID[c], "admits")
              /\ hpc' = [hpc EXCEPT ![c] = "dial"]
    /\ UNCHANGED <<bcastVars, lockVars>>
    /\ UNCHANGED <<now, snap, input, clientIP, connID, proto, method, up, upData, toCli, toUp,
                   cliEOF, upEOF, cliClosed, upClosed, lpc, chunk, wres, wrote>>

\* handleHTTP: http.ReadRequest, the target address, and addConnection
HTTPRequest(c) ==
    /\ hpc[c] = "http"
    /\ LET n == HeaderLen(Stream(c))
       IN  \/ /\ n = -1 \/ (n = -2 /\ cliEOF[c])
              /\ hpc' = [hpc EXCEPT ![c] = "closeConn"]
              /\ UNCHANGED <<rbuf, cli, address, method, regVars, broadcastChan, hist>>
           \/ /\ n >= 0
              /\ \E k \in Buffered(c, n) : Consume(c, n, k)
              /\ method' = [method EXCEPT ![c] = Stream(c)[1]]
              /\ address' = [address EXCEPT ![c] = HttpAddress(Stream(c))]
              /\ addConnection(connID[c], clientIP[c], "HTTP", HttpAddress(Stream(c)))
              /\ Called(connID[c], "admits")
              /\ hpc' = [hpc EXCEPT ![c] = "dial"]
    /\ UNCHANGED <<bcastVars, lockVars>>
    /\ UNCHANGED <<now, snap, input, clientIP, connID, proto, up, upData, toCli, toUp,
                   cliEOF, upEOF, cliClosed, upClosed, lpc, chunk, wres, wrote>>

\* a handler that forwards nothing to the upstream before the relay
DialOkForwardsNothing(c) == <<>>

\* a handler that answers a failed dial with the success reply
DialFailReplySucceeded(c) == Socks5Success

\* a handler that forwards every request, CONNECT included, to the upstream
DialOkForwardsRequest(c) == SerializeRequest(method[c], address[c].host)

\* what the handler writes to the client when the dial failed
DialFailReply(c) == IF proto[c] = "SOCKS5" THEN Socks5HostUnreachable ELSE <<Reply502>>

\* what the handler writes to the client when the dial succeeded
DialOkReply(c) ==
    IF proto[c] = "SOCKS5" THEN Socks5Success
    ELSE IF method[c] = MethodCONNECT THEN <<Reply200>>
    ELSE <<>>

\* what the handler writes to the upstream when the dial succeeded
DialOkForward(c) ==
    IF proto[c] = "HTTP" /\ method[c] # MethodCONNECT
    THEN SerializeRequest(method[c], address[c].host)
    ELSE <<>>

\* net.Dial fails: the error reply, then the deferred removeConnection
DialFail(c) ==
    /\ hpc[c] = "dial"
    /\ toCli' = [toCli EXCEPT ![c] = @ \o DialFailReply(c)]
    /\ hpc' = [hpc EXCEPT ![c] = "release"]
    /\ UNCHANGED <<bcastVars, lockVars>>
    /\ UNCHANGED <<now, snap, regVars, broadcastChan, input, clientIP, connID, proto, method, address,
                   cli, rbuf, up, upData, toUp, cliEOF, upEOF, cliClosed, upClosed, lpc, chunk,
                   wres, wrote, hist>>

\* net.Dial succeeds: the reply or the forwarded request, then both copy loops
DialOk(c, Ups, Eofs) ==
    /\ hpc[c] = "dial"
    /\ \E d \in Ups, e \in Eofs :
          /\ up' = [up EXCEPT ![c] = d]
          /\ upData' = [upData EXCEPT ![c] = d]
          /\ upEOF' = [upEOF EXCEPT ![c] = e]
    /\ toCli' = [toCli EXCEPT ![c] = @ \o DialOkReply(c)]
    /\ toUp' = [toUp EXCEPT ![c] = @ \o DialOkForward(c)]
    /\ lpc' = [lpc EXCEPT ![c] = [c2u |-> "read", u2c |-> "read"]]
    /\ hpc' = [hpc EXCEPT ![c] = "relay"]
    /\ UNCHANGED <<bcastVars, lockVars>>
    /\ UNCHANGED <<now, snap, regVars, broadcastChan, input, clientIP, connID, proto, method, address,
                   cli, rbuf, cliEOF, cliClosed, upClosed, chunk, wres, wrote, hist>>

\* net.Dial succeeds and req.Write to the upstream fails: the handler returns
DialOkWriteFail(c) ==
    /\ hpc[c] = "dial"
    /\ proto[c] = "HTTP" /\ method[c] # MethodCONNECT
    /\ hpc' = [hpc EXCEPT ![c] = "closeDest"]
    /\ UNCHANGED <<bcastVars, lockVars>>
    /\ UNCHANGED <<now, snap, regVars, broadcastChan, input, clientIP, connID, proto, method, address,
                   cli, rbuf, up, upData, toCli, toUp, cliEOF, upEOF, cliClosed, upClosed, lpc,
                   chunk, wres, wrote, hist>>


(***************************************************************************)
(* copyWithTracking: one loop per direction.                               *)
(***************************************************************************)
\* a relay that reads the connection in place of the bufio reader
C2USourceConn(c) == "conn"

\* where the client-to-upstream loop reads: handleSocks5 passes the bufio
\* reader, handleHTTP passes the connection itself
C2USource(c) == IF proto[c] = "SOCKS5" THEN "reader" ELSE "conn"

LoopVarsUnchanged ==
    UNCHANGED <<bcastVars, lockVars, now, snap, input, clientIP, connID, proto, method, address, upData, cliEOF, upEOF,
                cliClosed, upClosed, hpc>>

\* src.Read
LoopRead(c, d) ==
    /\ lpc[c][d] = "read"
    /\ \/ \* the bufio reader hands out what it has buffered
          /\ d = "c2u" /\ C2USource(c) = "reader" /\ rbuf[c] # <<>>
          /\ chunk' = [chunk EXCEPT ![c][d] = rbuf[c]]
          /\ rbuf' = [rbuf EXCEPT ![c] = <<>>]
          /\ lpc' = [lpc EXCEPT ![c][d] = "write"]
          /\ UNCHANGED <<cli, up>>
       \/ \* a read of the client socket
          /\ d = "c2u" /\ (C2USource(c) = "conn" \/ rbuf[c] = <<>>)
          /\ \/ /\ cliClosed[c]
                /\ lpc' = [lpc EXCEPT ![c][d] = "rerr"]
                /\ UNCHANGED <<cli, chunk>>
             \/ /\ ~cliClosed[c] /\ cli[c] # <<>>
                /\ \E k \in 1 .. Len(cli[c]) :
                      /\ chunk' = [chunk EXCEPT ![c][d] = Take(cli[c], k)]
                      /\ cli' = [cli EXCEPT ![c] = Drop(cli[c], k)]
                /\ lpc' = [lpc EXCEPT ![c][d] = "write"]
             \/ /\ ~cliClosed[c] /\ cli[c] = <<>> /\ cliEOF[c]
                /\ lpc' = [lpc EXCEPT ![c][d] = "eof"]
                /\ UNCHANGED <<cli, chunk>>
          /\ UNCHANGED <<rbuf, up>>
       \/ \* a read of the upstream socket
          /\ d = "u2c"
          /\ \/ /\ upClosed[c]
                /\ lpc' = [lpc EXCEPT ![c][d] = "rerr"]
                /\ UNCHANGED <<up, chunk>>
             \/ /\ ~upClosed[c] /\ up[c] # <<>>
                /\ \E k \in 1 .. Len(up[c]) :
                      /\ chunk' = [chunk EXCEPT ![c][d] = Take(up[c], k)]
                      /\ up' = [up EXCEPT ![c] = Drop(up[c], k)]
                /\ lpc' = [lpc EXCEPT ![c][d] = "write"]
             \/ /\ ~upClosed[c] /\ up[c] = <<>> /\ upEOF[c]
                /\ lpc' = [lpc EXCEPT ![c][d] = "eof"]
                /\ UNCHANGED <<up, chunk>>
          /\ UNCHANGED <<rbuf, cli>>
    /\ LoopVarsUnchanged
    /\ UNCHANGED <<regVars, broadcastChan, toCli, toUp, wres, wrote, hist>>

\* a relay whose two loops both write to the upstream socket
LoopDstUpstream(d) == "upstream"

\* dst of the loop: the handlers start the client-to-upstream loop with the
\* upstream connection as dst and run the other loop with the client's
LoopDst(d) == IF d = "c2u" THEN "upstream" ELSE "client"

\* the numbers of bytes a dst.Write of the chunk may report: none on a socket
\* the proxy has closed, otherwise all of them or, with an error, fewer
WriteResults(c, d) ==
    IF (LoopDst(d) = "upstream" /\ upClosed[c]) \/ (LoopDst(d) = "client" /\ cliClosed[c])
    THEN {0}
    ELSE 0 .. Len(chunk[c][d])

\* dst.Write; with nw = 0 the loop breaks on the error at once
LoopWrite(c, d) ==
    /\ lpc[c][d] = "write"
    /\ \E nw \in WriteResults(c, d) :
          /\ IF LoopDst(d) = "upstream"
             THEN /\ toUp' = [toUp EXCEPT ![c] = @ \o Take(chunk[c][d], nw)]
                  /\ UNCHANGED toCli
             ELSE /\ toCli' = [toCli EXCEPT ![c] = @ \o Take(chunk[c][d], nw)]
                  /\ UNCHANGED toUp
          /\ wrote' = [wrote EXCEPT ![c][d] = @ + nw]
          /\ wres' = [wres EXCEPT ![c][d] = [nw |-> nw, brk |-> nw # Len(chunk[c][d])]]
          /\ lpc' = [lpc EXCEPT ![c][d] = IF nw > 0 THEN "account" ELSE "werr"]
    /\ chunk' = [chunk EXCEPT ![c][d] = <<>>]
    /\ LoopVarsUnchanged
    /\ UNCHANGED <<regVars, broadcastChan, cli, rbuf, up, hist>>

\* updateBandwidth for the bytes written, then the loop's error checks
LoopAccount(c, d) ==
    /\ lpc[c][d] = "account"
    /\ IF d = "c2u"
       THEN updateBandwidth(connID[c], 0, wres[c][d].nw)
       ELSE updateBandwidth(connID[c], wres[c][d].nw, 0)
    /\ hist' = [hist EXCEPT ![connID[c]].accounts = 1,
                            ![connID[c]].early = @ \/ hist[connID[c]].admits = 0,
                            ![connID[c]].late = @ \/ hist[connID[c]].releases > 0]
    /\ lpc' = [lpc EXCEPT ![c][d] = IF wres[c][d].brk THEN "werr" ELSE "read"]
    /\ wres' = [wres EXCEPT ![c][d] = [nw |-> 0, brk |-> FALSE]]
    /\ LoopVarsUnchanged
    /\ UNCHANGED <<cli, rbuf, up, toCli, toUp, chunk, wrote>>

(***************************************************************************)
(* The handler's return: its deferred calls, in the order they run.        *)
(***************************************************************************)
HandlerVarsUnchanged ==
    UNCHANGED <<bcastVars, lockVars, now, snap, input, clientIP, connID, proto, method, address, cli, rbuf, up, upData,
                toCli, toUp, cliEOF, upEOF, lpc, chunk, wres, wrote>>

\* the inline upstream-to-client loop has returned (or req.Write failed):
\* the deferred destConn.Close()
CloseDest(c) ==
    /\ \/ hpc[c] = "closeDest"
       \/ hpc[c] = "relay" /\ Terminal(lpc[c]["u2c"])
    /\ upClosed' = [upClosed EXCEPT ![c] = TRUE]
    /\ hpc' = [hpc EXCEPT ![c] = "release"]
    /\ HandlerVarsUnchanged
    /\ UNCHANGED <<regVars, broadcastChan, cliClosed, hist>>

\* the deferred removeConnection(connID)
Release(c) ==
    /\ hpc[c] = "release"
    /\ removeConnection(connID[c])
    /\ Called(connID[c], "releases")
    /\ hpc' = [hpc EXCEPT ![c] = "closeConn"]
    /\ HandlerVarsUnchanged
    /\ UNCHANGED <<cliClosed, upClosed>>

\* handleConnection's deferred conn.Close()
CloseConn(c) ==
    /\ hpc[c] = "closeConn"
    /\ cliClosed' = [cliClosed EXCEPT ![c] = TRUE]
    /\ hpc' = [hpc EXCEPT ![c] = "done"]
    /\ HandlerVarsUnchanged
    /\ UNCHANGED <<regVars, broadcastChan, upClosed, hist>>

\* the wall clock advances
ClockTick ==
    /\ now < MaxClock
    /\ now' = now + 1
    /\ UNCHANGED <<snap, regVars, broadcastChan, connVars, bcastVars, lockVars>>

(***************************************************************************)
(* Registry mutators as the broadcast worker sees them: any connection     *)
(* task calling addConnection, removeConnection or updateBandwidth.        *)
(* addConnection and removeConnection signal after they have released the  *)
(* registry lock, updateBandwidth signals while it still holds it.         *)
(***************************************************************************)
\* bytes the mutators of SpecBroadcast account
MaxBytes == 1

workerVars == <<wpc, pendingUpdate, sinceLast, msg, phase, tickerChan>>
subVars == <<wsClients, spc, seedMsg, got>>
fanVars == <<wsMutex, todo, cur, served, failed>>

BroadcastUnchanged == UNCHANGED <<now, snap, connVars, lockVars>>

NoWatch == [seed |-> -1, armed |-> FALSE]

MutAdmit ==
    /\ TotalConnections < MaxAdmits
    /\ inFlight < MaxInFlight
    /\ addConnectionUpdate(generateConnectionID, "127.0.0.1", "HTTP", NoAddress)
    /\ inFlight' = inFlight + 1
    /\ stale' = TRUE
    /\ watch' = [w \in Subs |->
                   IF watch[w].seed >= 0 THEN [watch[w] EXCEPT !.armed = TRUE] ELSE watch[w]]
    /\ BroadcastUnchanged
    /\ UNCHANGED <<broadcastChan, workerVars, subVars, fanVars>>

MutRelease ==
    /\ inFlight < MaxInFlight
    /\ \E id \in DOMAIN active : removeConnectionUpdate(id)
    /\ inFlight' = inFlight + 1
    /\ stale' = TRUE
    /\ BroadcastUnchanged
    /\ UNCHANGED <<broadcastChan, workerVars, subVars, fanVars, watch>>

\* the select with a default case that ends addConnection and removeConnection
MutSignal ==
    /\ inFlight > 0
    /\ Signal
    /\ inFlight' = inFlight - 1
    /\ BroadcastUnchanged
    /\ UNCHANGED <<regVars, workerVars, subVars, fanVars, watch, stale>>

MutAccount ==
    /\ TotalBytesReceived < MaxBytes
    /\ \E id \in DOMAIN active : updateBandwidth(id, 1, 0)
    /\ stale' = TRUE
    /\ BroadcastUnchanged
    /\ UNCHANGED <<workerVars, subVars, fanVars, watch, inFlight>>

(***************************************************************************)
(* startBroadcastWorker, broadcastUpdate, getStats.                        *)
(***************************************************************************)
RECURSIVE SumOver(_, _, _)
SumOver(f, S, field) ==
    IF S = {} THEN 0
    ELSE LET i == CHOOSE i \in S : TRUE
         IN  f[i][field] + SumOver(f, S \ {i}, field)

\* a snapshot that reports the stored rates whatever the time of the last update
ReportedStored(conn, t) == conn

\* getStats' copy of a record: the rates are zeroed when the last update is
\* more than 2 seconds old
Reported(conn, t) ==
    IF conn.LastUpdateTime # ZeroTime /\ t - conn.LastUpdateTime > 2 * UnitsPerSecond
    THEN [conn EXCEPT !.BandwidthIn = 0, !.BandwidthOut = 0]
    ELSE conn

\* a snapshot whose aggregate sums the stored rates, idle records included
AggregateStored(f, field) == SumOver(active, DOMAIN active, field)

\* totalBandwidthIn += connCopy.BandwidthIn over the copies
Aggregate(f, field) == SumOver(f, DOMAIN f, field)

\* getStats: the MonitoringStats it returns
getStats ==
    LET copies == [id \in DOMAIN active |-> Reported(active[id], now)]
    IN  [TotalConnections |-> TotalConnections,
         ActiveConnections |-> copies,
         TotalBytesReceived |-> TotalBytesReceived,
         TotalBytesSent |-> TotalBytesSent,
         CurrentBandwidthIn |-> Aggregate(copies, "BandwidthIn"),
         CurrentBandwidthOut |-> Aggregate(copies, "BandwidthOut")]

\* time.Since(lastBroadcast) >= 1*time.Second
WakeMayBroadcast == sinceLast >= UnitsPerSecond

\* case <-broadcastChan
WorkerWake ==
    /\ wpc = "select"
    /\ broadcastChan > 0
    /\ broadcastChan' = broadcastChan - 1
    /\ pendingUpdate' = TRUE
    /\ wpc' = IF WakeMayBroadcast THEN "broadcast" ELSE "select"
    /\ BroadcastUnchanged
    /\ UNCHANGED <<regVars, sinceLast, msg, phase, tickerChan, subVars, fanVars, watch,
                   inFlight, stale>>

\* a ticker case that publishes on every tick
TickMayBroadcastAlways == TRUE

\* if pendingUpdate, in the ticker case
TickMayBroadcast == pendingUpdate

\* case <-ticker.C
WorkerTick ==
    /\ wpc = "select"
    /\ tickerChan = 1
    /\ tickerChan' = 0
    /\ wpc' = IF TickMayBroadcast THEN "broadcast" ELSE "select"
    /\ BroadcastUnchanged
    /\ UNCHANGED <<regVars, broadcastChan, pendingUpdate, sinceLast, msg, phase, subVars,
                   fanVars, watch, inFlight, stale>>

\* broadcastUpdate: getStats and json.Marshal
BroadcastSnapshot ==
    /\ wpc = "broadcast"
    /\ msg' = getStats.TotalConnections
    /\ stale' = FALSE
    /\ wpc' = "write"
    /\ BroadcastUnchanged
    /\ UNCHANGED <<regVars, broadcastChan, pendingUpdate, sinceLast, phase, tickerChan,
                   subVars, fanVars, watch, inFlight>>

\* broadcastUpdate: wsMutex.Lock() and the list of the clients
BroadcastLock ==
    /\ wpc = "write"
    /\ wsMutex = "free"
    /\ wsMutex' = "worker"
    /\ todo' = wsClients
    /\ served' = {}
    /\ wpc' = "fan"
    /\ BroadcastUnchanged
    /\ UNCHANGED <<regVars, broadcastChan, pendingUpdate, sinceLast, msg, phase, tickerChan,
                   subVars, cur, failed, watch, inFlight, stale>>

\* broadcastUpdate: client.WriteMessage is called for the next client of the
\* list, one client after the other
BroadcastWriteBegin(w) ==
    /\ wpc = "fan"
    /\ cur = 0
    /\ w \in todo
    /\ cur' = w
    /\ todo' = todo \ {w}
    /\ BroadcastUnchanged
    /\ UNCHANGED <<regVars, broadcastChan, workerVars, subVars, wsMutex, served, failed,
                   watch, inFlight, stale>>

\* a failed write that leaves the client in the subscriber set
AfterWriteKeeps(w, ok) == wsClients

\* what becomes of the subscriber set when the write to w has returned:
\* a failed write closes and deletes the client, and the loop goes on
AfterWrite(w, ok) == IF ok THEN wsClients ELSE wsClients \ {w}

\* broadcastUpdate: client.WriteMessage returns, with or without an error
BroadcastWriteEnd ==
    /\ cur # 0
    /\ \E ok \in BOOLEAN :
          /\ wsClients' = AfterWrite(cur, ok)
          /\ failed' = IF ok THEN failed ELSE failed \cup {cur}
          /\ served' = IF ok THEN served \cup {cur} ELSE served
          /\ got' = IF ok THEN [got EXCEPT ![cur] = Max(@, msg)] ELSE got
          /\ watch' = IF ok /\ watch[cur].armed THEN [watch EXCEPT ![cur] = NoWatch] ELSE watch
    /\ cur' = 0
    /\ BroadcastUnchanged
    /\ UNCHANGED <<regVars, broadcastChan, workerVars, spc, seedMsg, wsMutex, todo,
                   inFlight, stale>>

\* broadcastUpdate returns (the deferred wsMutex.Unlock()); then
\* lastBroadcast = time.Now() and pendingUpdate = false
BroadcastUnlock ==
    /\ wpc = "fan"
    /\ cur = 0
    /\ todo = {}
    /\ wsMutex' = "free"
    /\ msg' = 0
    /\ sinceLast' = 0
    /\ pendingUpdate' = FALSE
    /\ wpc' = "select"
    /\ BroadcastUnchanged
    /\ UNCHANGED <<regVars, broadcastChan, phase, tickerChan, subVars, todo, cur, served,
                   failed, watch, inFlight, stale>>

\* one unit of time passes; the ticker puts a tick into ticker.C, which
\* holds one
TimePasses ==
    /\ sinceLast' = Min(sinceLast + 1, UnitsPerSecond)
    /\ phase' = (phase + 1) % TickerPeriod
    /\ tickerChan' = IF (phase + 1) % TickerPeriod = 0 THEN 1 ELSE tickerChan
    /\ BroadcastUnchanged
    /\ UNCHANGED <<regVars, broadcastChan, wpc, pendingUpdate, msg, subVars, fanVars, watch,
                   inFlight, stale>>

(***************************************************************************)
(* handleWebSocket.                                                        *)
(***************************************************************************)
SubUnchanged ==
    UNCHANGED <<now, snap, connVars, lockVars, regVars, broadcastChan, workerVars, wsMutex, todo, cur,
                served, failed, inFlight, stale>>

\* the upgrade and, under wsMutex, wsClients[conn] = true
Subscribe(w) ==
    /\ spc[w] = "none"
    /\ wsMutex = "free"
    /\ wsClients' = wsClients \cup {w}
    /\ spc' = [spc EXCEPT ![w] = "seed"]
    /\ SubUnchanged
    /\ UNCHANGED <<seedMsg, got, watch>>

\* the initial getStats and json.Marshal
SeedSnapshot(w) ==
    /\ spc[w] = "seed"
    /\ seedMsg' = [seedMsg EXCEPT ![w] = getStats.TotalConnections]
    /\ spc' = [spc EXCEPT ![w] = "seedwrite"]
    /\ SubUnchanged
    /\ UNCHANGED <<wsClients, got, watch>>

\* the initial conn.WriteMessage is called; it takes no lock
SeedWriteBegin(w) ==
    /\ spc[w] = "seedwrite"
    /\ spc' = [spc EXCEPT ![w] = "seedwriting"]
    /\ SubUnchanged
    /\ UNCHANGED <<wsClients, seedMsg, got, watch>>

\* the initial conn.WriteMessage returns; on a connection that a failed
\* write of broadcastUpdate has closed it delivers nothing
SeedWriteEnd(w) ==
    /\ spc[w] = "seedwriting"
    /\ IF w \in failed
       THEN UNCHANGED <<got, watch>>
       ELSE /\ got' = [got EXCEPT ![w] = Max(@, seedMsg[w])]
            /\ watch' = [watch EXCEPT ![w] = [seed |-> seedMsg[w], armed |-> FALSE]]
    /\ seedMsg' = [seedMsg EXCEPT ![w] = 0]
    /\ spc' = [spc EXCEPT ![w] = "reading"]
    /\ SubUnchanged
    /\ UNCHANGED wsClients

\* conn.ReadMessage fails: under wsMutex the subscriber is deleted, and the
\* handler returns
ReadFails(w) ==
    /\ spc[w] = "reading"
    /\ wsMutex = "free"
    /\ wsClients' = wsClients \ {w}
    /\ spc' = [spc EXCEPT ![w] = "closed"]
    /\ watch' = [watch EXCEPT ![w] = NoWatch]
    /\ SubUnchanged
    /\ UNCHANGED <<seedMsg, got>>

(***************************************************************************)
(* The registry as its callers drive it: a connection task takes its id,   *)
(* admits, accounts from its copy loops (one of which may outlive the      *)
(* release) and releases, while handleAPI takes snapshots and time passes. *)
(***************************************************************************)
RegistryUnchanged ==
    UNCHANGED <<bcastVars, lockVars, input, clientIP, proto, method, address, cli, rbuf, up, upData,
                toCli, toUp, cliEOF, upEOF, cliClosed, upClosed, lpc, chunk, wres, hist>>

\* connID := generateConnectionID()
RegAccept(c) ==
    /\ hpc[c] = "idle"
    /\ connID' = [connID EXCEPT ![c] = generateConnectionID]
    /\ hpc' = [hpc EXCEPT ![c] = "accepted"]
    /\ RegistryUnchanged
    /\ UNCHANGED <<now, snap, regVars, broadcastChan, wrote>>

\* addConnection(connID, clientIP, protocol, address)
RegAdmit(c) ==
    /\ hpc[c] = "accepted"
    /\ addConnection(connID[c], "127.0.0.1", "HTTP", NoAddress)
    /\ hpc' = [hpc EXCEPT ![c] = "admitted"]
    /\ RegistryUnchanged
    /\ UNCHANGED <<now, snap, connID, wrote>>

\* copyWithTracking's updateBandwidth(connID, 0, nw) or (connID, nw, 0); the
\* loop started with go may still run after the handler has released
RegAccount(c, d) ==
    /\ hpc[c] \in {"admitted", "released"}
    /\ wrote[1]["c2u"] + wrote[1]["u2c"] + wrote[MaxConns]["c2u"] + wrote[MaxConns]["u2c"]
          < MaxAccounts
    /\ IF d = "c2u" THEN updateBandwidth(connID[c], 0, 1) ELSE updateBandwidth(connID[c], 1, 0)
    /\ wrote' = [wrote EXCEPT ![c][d] = @ + 1]
    /\ RegistryUnchanged
    /\ UNCHANGED <<now, snap, connID, hpc>>

\* the deferred removeConnection(connID)
RegRelease(c) ==
    /\ hpc[c] = "admitted"
    /\ removeConnection(connID[c])
    /\ hpc' = [hpc EXCEPT ![c] = "released"]
    /\ RegistryUnchanged
    /\ UNCHANGED <<now, snap, connID, wrote>>

\* handleAPI: currentStats := getStats(), encoded to the response; the
\* response is getStats of the state the step starts in
handleAPI ==
    /\ snap < MaxRequests
    /\ snap' = snap + 1
    /\ RegistryUnchanged
    /\ UNCHANGED <<now, regVars, broadcastChan, connID, hpc, wrote>>

\* time.Now() advances by one unit
RegElapse ==
    /\ now < MaxTime
    /\ now' = now + 1
    /\ RegistryUnchanged
    /\ UNCHANGED <<snap, regVars, broadcastChan, connID, hpc, wrote>>

(***************************************************************************)
(* The two locks, statement by statement.  Every goroutine is a task: the  *)
(* handler of a connection (with the copy loop it runs inline), the        *)
(* handler of a /api/stats request, the broadcast worker, and the handler  *)
(* of a WebSocket.  tpc[t] is the statement task t executes next, locks[t] *)
(* the locks it holds: "W" for stats.mutex.Lock(), "R" for                 *)
(* stats.mutex.RLock(), "ws" for wsMutex.Lock().  An unlock is one step    *)
(* with the statements it directly follows.  Time is not followed here     *)
(* (the worker's test of the time since its last broadcast may go either   *)
(* way and a tick may come at any moment), and neither is the content of   *)
(* the snapshots.                                                          *)
(***************************************************************************)
\* the subscriber of SpecBroadcast and of SpecLocks
BroadcastSubs == {1}

ConnTask(c) == <<"conn", c>>
WsTask(w) == <<"ws", w>>
WorkerTask == <<"worker", 0>>
ApiTask == <<"api", 0>>
Tasks == {ConnTask(c) : c \in Conns} \cup {WsTask(w) : w \in BroadcastSubs}
            \cup {WorkerTask, ApiTask}

\* an addConnection that takes the registry lock before it looks the name up
addConnectionOrderLockFirst == <<"addLock", "lookup", "addBody", "addSignal">>

\* addConnection: reverseDNSLookup, Lock, the record and the counter with the
\* Unlock that follows them, the signal
addConnectionOrder == <<"lookup", "addLock", "addBody", "addSignal">>

\* getStats: RLock, the copy of the totals and the records with the deferred
\* RUnlock that follows it
getStatsOrder == <<"statsRLock", "statsCopy">>

\* a broadcastUpdate that takes wsMutex before it takes the snapshot
broadcastUpdateOrderLockFirst == <<"wsLock", "statsRLock", "statsCopy", "publish">>

\* broadcastUpdate: getStats, wsMutex.Lock, the writes with the deferred
\* Unlock that follows them
broadcastUpdateOrder == getStatsOrder \o <<"wsLock", "publish">>

\* handleWebSocket: the client is added under wsMutex, the seed snapshot is
\* taken and written, messages are read until a read fails, and the client
\* is deleted under wsMutex
handleWebSocketOrder ==
    <<"wsLock", "wsAdd">> \o getStatsOrder
        \o <<"seedWrite", "reading", "delLock", "delBody", "closed">>

\* the statements of a task, in the order it executes them
Program(t) ==
    IF t[1] = "conn" THEN <<"genid">> \o addConnectionOrder \o <<"relay">>
    ELSE IF t[1] = "api" THEN getStatsOrder \o <<"idle">>
    ELSE IF t[1] = "worker" THEN broadcastUpdateOrder \o <<"stamp">>
    ELSE handleWebSocketOrder

\* the statement that follows statement l of task t
Succ(t, l) ==
    LET p == Program(t)
        i == CHOOSE i \in 1 .. Len(p) : p[i] = l
    IN  p[i + 1]

At(t, l) == tpc[t] = l
Goto(t, l) == tpc' = [tpc EXCEPT ![t] = l]
Acquire(t, l) == locks' = [locks EXCEPT ![t] = @ \cup {l}]
Unlock(t, l) == locks' = [locks EXCEPT ![t] = @ \ {l}]

\* sync.RWMutex: Lock waits for the writer and the readers, RLock for the writer
CanLock == \A u \in Tasks : locks[u] \cap {"W", "R"} = {}
CanRLock == \A u \in Tasks : "W" \notin locks[u]
\* wsMutex, which is only ever taken with Lock
CanWsLock == \A u \in Tasks : "ws" \notin locks[u]

lkConnRest == <<hpc, input, clientIP, proto, method, address, cli, rbuf, up, upData, toCli,
                toUp, cliEOF, upEOF, cliClosed, upClosed, lpc, chunk, wres, hist>>
lkBcastRest == <<wpc, sinceLast, msg, phase, tickerChan, spc, seedMsg, got, wsMutex, todo, cur, served,
                 failed, watch, inFlight, stale>>
LkUnchanged == UNCHANGED <<now, lkConnRest, lkBcastRest>>
lkData == <<snap, regVars, broadcastChan, connID, wrote, pendingUpdate, wsClients>>

\* handleConnection is started for an accepted connection of an allowed client
LkAccept(c) ==
    /\ At(ConnTask(c), "idle")
    /\ Goto(ConnTask(c), "genid")
    /\ LkUnchanged
    /\ UNCHANGED <<lkData, locks>>

\* connID := generateConnectionID(): time.Now() and len(stats.ActiveConnections)
LkGenId(c) ==
    /\ At(ConnTask(c), "genid")
    /\ connID' = [connID EXCEPT ![c] = generateConnectionID]
    /\ Goto(ConnTask(c), Succ(ConnTask(c), "genid"))
    /\ LkUnchanged
    /\ UNCHANGED <<snap, regVars, broadcastChan, wrote, pendingUpdate, wsClients, locks>>

\* addConnection: reverseDNSLookup(destination) returns
LkLookup(c) ==
    /\ At(ConnTask(c), "lookup")
    /\ Goto(ConnTask(c), Succ(ConnTask(c), "lookup"))
    /\ LkUnchanged
    /\ UNCHANGED <<lkData, locks>>

\* addConnection: stats.mutex.Lock()
LkAddLock(c) ==
    /\ At(ConnTask(c), "addLock")
    /\ CanLock
    /\ Acquire(ConnTask(c), "W")
    /\ Goto(ConnTask(c), Succ(ConnTask(c), "addLock"))
    /\ LkUnchanged
    /\ UNCHANGED lkData

\* addConnection: the record is stored and TotalConnections incremented;
\* stats.mutex.Unlock()
LkAddBody(c) ==
    /\ At(ConnTask(c), "addBody")
    /\ addConnectionUpdate(connID[c], "127.0.0.1", "HTTP", NoAddress)
    /\ Unlock(ConnTask(c), "W")
    /\ Goto(ConnTask(c), Succ(ConnTask(c), "addBody"))
    /\ LkUnchanged
    /\ UNCHANGED <<snap, broadcastChan, connID, wrote, pendingUpdate, wsClients>>

\* addConnection: the non-blocking send on broadcastChan
LkAddSignal(c) ==
    /\ At(ConnTask(c), "addSignal")
    /\ Signal
    /\ Goto(ConnTask(c), Succ(ConnTask(c), "addSignal"))
    /\ LkUnchanged
    /\ UNCHANGED <<snap, regVars, connID, wrote, pendingUpdate, wsClients, locks>>

\* copyWithTracking calls updateBandwidth: stats.mutex.Lock()
LkAccLock(c) ==
    /\ At(ConnTask(c), "relay")
    /\ wrote[c]["u2c"] < MaxBytes
    /\ CanLock
    /\ Acquire(ConnTask(c), "W")
    /\ Goto(ConnTask(c), "accBody")
    /\ LkUnchanged
    /\ UNCHANGED lkData

\* updateBandwidth: the record, the totals and the signal; the deferred
\* stats.mutex.Unlock()
LkAccBody(c) ==
    /\ At(ConnTask(c), "accBody")
    /\ updateBandwidth(connID[c], 1, 0)
    /\ wrote' = [wrote EXCEPT ![c]["u2c"] = @ + 1]
    /\ Unlock(ConnTask(c), "W")
    /\ Goto(ConnTask(c), "relay")
    /\ LkUnchanged
    /\ UNCHANGED <<snap, connID, pendingUpdate, wsClients>>

\* the handler returns, its deferred removeConnection: stats.mutex.Lock()
LkRelLock(c) ==
    /\ At(ConnTask(c), "relay")
    /\ CanLock
    /\ Acquire(ConnTask(c), "W")
    /\ Goto(ConnTask(c), "relBody")
    /\ LkUnchanged
    /\ UNCHANGED lkData

\* removeConnection: delete(stats.ActiveConnections, id); stats.mutex.Unlock()
LkRelBody(c) ==
    /\ At(ConnTask(c), "relBody")
    /\ removeConnectionUpdate(connID[c])
    /\ Unlock(ConnTask(c), "W")
    /\ Goto(ConnTask(c), "relSignal")
    /\ LkUnchanged
    /\ UNCHANGED <<snap, broadcastChan, connID, wrote, pendingUpdate, wsClients>>

\* removeConnection: the non-blocking send on broadcastChan
LkRelSignal(c) ==
    /\ At(ConnTask(c), "relSignal")
    /\ Signal
    /\ Goto(ConnTask(c), "closed")
    /\ LkUnchanged
    /\ UNCHANGED <<snap, regVars, connID, wrote, pendingUpdate, wsClients, locks>>

\* handleAPI is started for a request and calls getStats
LkApiCall ==
    /\ At(ApiTask, "idle")
    /\ snap < MaxRequests
    /\ Goto(ApiTask, "statsRLock")
    /\ LkUnchanged
    /\ UNCHANGED <<lkData, locks>>

\* getStats: stats.mutex.RLock()
LkStatsRLock(t) ==
    /\ At(t, "statsRLock")
    /\ CanRLock
    /\ Acquire(t, "R")
    /\ Goto(t, Succ(t, "statsRLock"))
    /\ LkUnchanged
    /\ UNCHANGED lkData

\* getStats: the totals and the records are copied into the result; the
\* deferred stats.mutex.RUnlock()
LkStatsCopy(t) ==
    /\ At(t, "statsCopy")
    /\ snap' = IF t = ApiTask THEN snap + 1 ELSE snap
    /\ Unlock(t, "R")
    /\ Goto(t, Succ(t, "statsCopy"))
    /\ LkUnchanged
    /\ UNCHANGED <<regVars, broadcastChan, connID, wrote, pendingUpdate, wsClients>>

\* the worker's case <-broadcastChan
LkWake ==
    /\ At(WorkerTask, "select")
    /\ broadcastChan > 0
    /\ broadcastChan' = broadcastChan - 1
    /\ pendingUpdate' = TRUE
    /\ \E elapsed \in BOOLEAN :
          Goto(WorkerTask, IF elapsed THEN broadcastUpdateOrder[1] ELSE "select")
    /\ LkUnchanged
    /\ UNCHANGED <<snap, regVars, connID, wrote, wsClients, locks>>

\* the worker's case <-ticker.C with a pending update
LkTick ==
    /\ At(WorkerTask, "select")
    /\ pendingUpdate
    /\ Goto(WorkerTask, broadcastUpdateOrder[1])
    /\ LkUnchanged
    /\ UNCHANGED <<lkData, locks>>

\* wsMutex.Lock() in broadcastUpdate and in handleWebSocket
LkWsLock(t) ==
    /\ At(t, "wsLock")
    /\ CanWsLock
    /\ Acquire(t, "ws")
    /\ Goto(t, Succ(t, "wsLock"))
    /\ LkUnchanged
    /\ UNCHANGED lkData

\* broadcastUpdate: the message is written to every client, the clients
\* whose write fails are closed and deleted; the deferred wsMutex.Unlock()
LkPublish ==
    /\ At(WorkerTask, "publish")
    /\ \E bad \in SUBSET wsClients : wsClients' = wsClients \ bad
    /\ Unlock(WorkerTask, "ws")
    /\ Goto(WorkerTask, Succ(WorkerTask, "publish"))
    /\ LkUnchanged
    /\ UNCHANGED <<snap, regVars, broadcastChan, connID, wrote, pendingUpdate>>

\* the worker, after broadcastUpdate: lastBroadcast = time.Now() and
\* pendingUpdate = false
LkStamp ==
    /\ At(WorkerTask, "stamp")
    /\ pendingUpdate' = FALSE
    /\ Goto(WorkerTask, "select")
    /\ LkUnchanged
    /\ UNCHANGED <<snap, regVars, broadcastChan, connID, wrote, wsClients, locks>>

\* handleWebSocket is started: the upgrade
LkUpgrade(w) ==
    /\ At(WsTask(w), "none")
    /\ Goto(WsTask(w), handleWebSocketOrder[1])
    /\ LkUnchanged
    /\ UNCHANGED <<lkData, locks>>

\* handleWebSocket: wsClients[conn] = true; wsMutex.Unlock()
LkWsAdd(w) ==
    /\ At(WsTask(w), "wsAdd")
    /\ wsClients' = wsClients \cup {w}
    /\ Unlock(WsTask(w), "ws")
    /\ Goto(WsTask(w), Succ(WsTask(w), "wsAdd"))
    /\ LkUnchanged
    /\ UNCHANGED <<snap, regVars, broadcastChan, connID, wrote, pendingUpdate>>

\* handleWebSocket: the seed message is written
LkSeedWrite(w) ==
    /\ At(WsTask(w), "seedWrite")
    /\ Goto(WsTask(w), Succ(WsTask(w), "seedWrite"))
    /\ LkUnchanged
    /\ UNCHANGED <<lkData, locks>>

\* handleWebSocket: conn.ReadMessage fails
LkReadFails(w) ==
    /\ At(WsTask(w), "reading")
    /\ Goto(WsTask(w), Succ(WsTask(w), "reading"))
    /\ LkUnchanged
    /\ UNCHANGED <<lkData, locks>>

\* handleWebSocket, after the failed read: wsMutex.Lock()
LkDelLock(w) ==
    /\ At(WsTask(w), "delLock")
    /\ CanWsLock
    /\ Acquire(WsTask(w), "ws")
    /\ Goto(WsTask(w), Succ(WsTask(w), "delLock"))
    /\ LkUnchanged
    /\ UNCHANGED lkData

\* handleWebSocket: delete(wsClients, conn); wsMutex.Unlock(), and the
\* handler returns
LkDelBody(w) ==
    /\ At(WsTask(w), "delBody")
    /\ wsClients' = wsClients \ {w}
    /\ Unlock(WsTask(w), "ws")
    /\ Goto(WsTask(w), Succ(WsTask(w), "delBody"))
    /\ LkUnchanged
    /\ UNCHANGED <<snap, regVars, broadcastChan, connID, wrote, pendingUpdate>>

\* the statements of a connection's handler
LkConn(c) ==
    \/ LkAccept(c)
    \/ LkGenId(c)
    \/ LkLookup(c)
    \/ LkAddLock(c)
    \/ LkAddBody(c)
    \/ LkAddSignal(c)
    \/ LkAccLock(c)
    \/ LkAccBody(c)
    \/ LkRelLock(c)
    \/ LkRelBody(c)
    \/ LkRelSignal(c)

\* the statements of getStats and of the wsMutex sections, for any task
LkShared(t) ==
    \/ LkStatsRLock(t)
    \/ LkStatsCopy(t)
    \/ LkWsLock(t)

\* the statements of a WebSocket handler
LkWs(w) ==
    \/ LkUpgrade(w)
    \/ LkWsAdd(w)
    \/ LkSeedWrite(w)
    \/ LkReadFails(w)
    \/ LkDelLock(w)
    \/ LkDelBody(w)

\* a statement of task t
LkTask(t) ==
    \/ LkShared(t)
    \/ t[1] = "conn" /\ LkConn(t[2])
    \/ t[1] = "ws" /\ LkWs(t[2])
    \/ t = ApiTask /\ LkApiCall
    \/ t = WorkerTask /\ (LkWake \/ LkTick \/ LkPublish \/ LkStamp)

(***************************************************************************)
(* Specifications.                                                         *)
(***************************************************************************)
Init ==
    /\ now = 0
    /\ snap = 0
    /\ active = <<>>
    /\ TotalConnections = 0
    /\ TotalBytesReceived = 0
    /\ TotalBytesSent = 0
    /\ broadcastChan = 0
    /\ hpc = [c \in Conns |-> "idle"]
    /\ input = [c \in Conns |-> In(<<>>, <<>>, FALSE)]
    /\ clientIP = [c \in Conns |-> ""]
    /\ connID = [c \in Conns |-> NoId]
    /\ proto = [c \in Conns |-> ""]
    /\ method = [c \in Conns |-> 0]
    /\ address = [c \in Conns |-> NoAddress]
    /\ cli = [c \in Conns |-> <<>>]
    /\ rbuf = [c \in Conns |-> <<>>]
    /\ up = [c \in Conns |-> <<>>]
    /\ upData = [c \in Conns |-> <<>>]
    /\ toCli = [c \in Conns |-> <<>>]
    /\ toUp = [c \in Conns |-> <<>>]
    /\ cliEOF = [c \in Conns |-> FALSE]
    /\ upEOF = [c \in Conns |-> FALSE]
    /\ cliClosed = [c \in Conns |-> FALSE]
    /\ upClosed = [c \in Conns |-> FALSE]
    /\ lpc = [c \in Conns |-> [d \in Dirs |-> "off"]]
    /\ chunk = [c \in Conns |-> [d \in Dirs |-> <<>>]]
    /\ wres = [c \in Conns |-> [d \in Dirs |-> [nw |-> 0, brk |-> FALSE]]]
    /\ wrote = [c \in Conns |-> [d \in Dirs |-> 0]]
    /\ hist = [i \in Ids |-> [admits |-> 0, releases |-> 0, accounts |-> 0,
                              early |-> FALSE, late |-> FALSE]]
    /\ wpc = "select"
    /\ pendingUpdate = FALSE
    /\ sinceLast = UnitsPerSecond
    /\ msg = 0
    /\ phase = 0
    /\ tickerChan = 0
    /\ wsClients = {}
    /\ spc = [w \in Subs |-> "none"]
    /\ seedMsg = [w \in Subs |-> 0]
    /\ got = [w \in Subs |-> -1]
    /\ inFlight = 0
    /\ wsMutex = "free"
    /\ todo = {}
    /\ cur = 0
    /\ served = {}
    /\ failed = {}
    /\ watch = [w \in Subs |-> NoWatch]
    /\ stale = FALSE
    /\ tpc = [t \in Tasks |->
                IF t = WorkerTask THEN "select" ELSE IF t[1] = "ws" THEN "none" ELSE "idle"]
    /\ locks = [t \in Tasks |-> {}]

Relay(c) ==
    \/ Peek(c)
    \/ Socks5Methods(c)
    \/ Socks5Request(c)
    \/ HTTPRequest(c)
    \/ DialFail(c)
    \/ DialOkWriteFail(c)
    \/ \E d \in Dirs : LoopRead(c, d) \/ LoopWrite(c, d) \/ LoopAccount(c, d)
    \/ CloseDest(c)
    \/ Release(c)
    \/ CloseConn(c)

Next ==
    \/ \E c \in Conns : Accept(c, ConnInputs, {TRUE})
    \/ \E c \in Conns : DialOk(c, UpstreamInputsSmall, {TRUE})
    \/ \E c \in Conns : Relay(c)
    \/ ClockTick

Spec == Init /\ [][Next]_vars

NextBytes ==
    \/ Accept(1, ByteInputs, BOOLEAN)
    \/ DialOk(1, UpstreamInputs, BOOLEAN)
    \/ Relay(1)

SpecBytes == Init /\ [][NextBytes]_vars

\* The Go scheduler runs every runnable goroutine: a step of the handler or
\* of a copy loop that can be taken is taken.  A Read of a socket whose peer
\* neither sends nor closes has no deadline and is no such step.
FairBytes == WF_vars(Relay(1))

SpecBytesLive == Init /\ [][NextBytes]_vars /\ FairBytes



Worker ==
    \/ WorkerWake
    \/ WorkerTick
    \/ BroadcastSnapshot
    \/ BroadcastLock
    \/ \E w \in Subs : BroadcastWriteBegin(w)
    \/ BroadcastWriteEnd
    \/ BroadcastUnlock

Subscriber(w) ==
    \/ Subscribe(w)
    \/ SeedSnapshot(w)
    \/ SeedWriteBegin(w)
    \/ SeedWriteEnd(w)
    \/ ReadFails(w)

NextBroadcast ==
    \/ MutAdmit
    \/ MutRelease
    \/ MutSignal
    \/ MutAccount
    \/ Worker
    \/ TimePasses
    \/ \E w \in BroadcastSubs : Subscriber(w)

\* The Go scheduler runs every runnable goroutine, select takes a ready case,
\* and time passes.  No write to a WebSocket connection has a deadline, so
\* nothing makes a WriteMessage return.
FairBroadcast ==
    /\ WF_vars(MutSignal)
    /\ WF_vars(WorkerWake)
    /\ WF_vars(WorkerTick)
    /\ WF_vars(BroadcastSnapshot)
    /\ WF_vars(BroadcastLock)
    /\ \A w \in Subs : WF_vars(BroadcastWriteBegin(w))
    /\ WF_vars(BroadcastUnlock)
    /\ WF_vars(TimePasses)
    /\ \A w \in Subs : WF_vars(SeedSnapshot(w)) /\ WF_vars(SeedWriteBegin(w))

SpecBroadcast == Init /\ [][NextBroadcast]_vars /\ FairBroadcast

NextFanout ==
    \/ MutAdmit
    \/ MutSignal
    \/ Worker
    \/ TimePasses
    \/ \E w \in Subs : Subscriber(w)

SpecFanout == Init /\ [][NextFanout]_vars

NextRegistry ==
    \/ \E c \in Conns : RegAccept(c)
    \/ \E c \in Conns : RegAdmit(c)
    \/ \E c \in Conns, d \in Dirs : RegAccount(c, d)
    \/ \E c \in Conns : RegRelease(c)
    \/ handleAPI
    \/ RegElapse

SpecRegistry == Init /\ [][NextRegistry]_vars

NextLocks ==
    \/ \E c \in Conns : LkConn(c)
    \/ \E t \in Tasks : LkShared(t)
    \/ \E w \in BroadcastSubs : LkWs(w)
    \/ LkApiCall
    \/ LkWake
    \/ LkTick
    \/ LkPublish
    \/ LkStamp

SpecLocks == Init /\ [][NextLocks]_vars


(***************************************************************************)
(* The registry calls of a connection and its two copy loops.              *)
(***************************************************************************)
Running(l) == l \in {"read", "write", "account"}

\* C1: for every connection id the admit precedes every account, and no
\* account for the id occurs after its release, under every interleaving of
\* the two copy loops and the handler's return.
C1_AccountBetweenAdmitAndRelease ==
    \A i \in Ids : ~hist[i].early /\ ~hist[i].late

\* C2: both copy loops of a connection have ended before the handler
\* releases the record and closes the upstream and the client socket.
C2_LoopsEndBeforeHandlerCompletes ==
    \A c \in Conns :
        (upClosed[c] \/ cliClosed[c] \/ hpc[c] \in {"closeConn", "done"})
            => \A d \in Dirs : ~Running(lpc[c][d])

\* C3: for every connection id addConnection is called exactly once and
\* removeConnection exactly once, never before the admit; a connection
\* that ends before its engine yields a destination is neither admitted nor
\* released.
C3_AdmitAndReleaseExactlyOnce ==
    /\ \A i \in Ids : hist[i].admits <= 1 /\ hist[i].releases <= hist[i].admits
    /\ \A c \in Conns :
          (hpc[c] = "done" /\ address[c] # NoAddress)
              => hist[connID[c]].admits = 1 /\ hist[connID[c]].releases = 1
    /\ \A c \in Conns :
          (connID[c] # NoId /\ address[c] = NoAddress
              /\ \A c2 \in Conns \ {c} : connID[c2] # connID[c])
              => hist[connID[c]].admits = 0 /\ hist[connID[c]].releases = 0

\* C4: a connection's record is in the registry only while its relay is
\* live: not while the upstream is being dialed, not after a failed dial,
\* and no copy loop still relays once the record has been released.
C4_RecordIffRelayLive ==
    \A c \in Conns :
        /\ hpc[c] = "dial" => connID[c] \notin DOMAIN active
        /\ (hpc[c] = "release" /\ ~upClosed[c]) => connID[c] \notin DOMAIN active
        /\ (connID[c] # NoId /\ hist[connID[c]].releases > 0)
              => \A d \in Dirs : ~Running(lpc[c][d])

\* C5: generateConnectionID never gives two connections the same id.
C5_ConnectionIdsUnique ==
    \A c1, c2 \in Conns :
        (c1 # c2 /\ connID[c1] # NoId /\ connID[c2] # NoId) => connID[c1] # connID[c2]

\* the client bytes that follow the framed SOCKS5 handshake and request
AfterRequest(s) ==
    LET n == MethodsLen(s)
    IN  Drop(s, n + RequestLen(Drop(s, n)))

\* the client bytes that follow the HTTP request header
AfterHeader(s) == Drop(s, HeaderLen(s))

Sent(c) == input[c].hdr \o input[c].payload

\* C6: on the HTTP path the client bytes behind the request header, those
\* the HTTP parser had already buffered included, all reach the upstream in
\* order once the client-to-upstream loop has read the client to its end.
C6_HttpBufferedBytesReachUpstream ==
    \A c \in Conns :
        (proto[c] = "HTTP" /\ lpc[c]["c2u"] = "eof")
            => toUp[c] = DialOkForward(c) \o AfterHeader(Sent(c))

\* C7: for a SOCKS5 CONNECT whose dial succeeded the client is written
\* exactly 05 00 and 05 00 00 01 00 00 00 00 00 00, the engine consumes
\* exactly the framed handshake and request, and the bytes behind them reach
\* the upstream, and the upstream's bytes the client, verbatim: in order,
\* without loss or duplication, and completely when the loop read to the end.
C7_Socks5RepliesAndVerbatimRelay ==
    \A c \in Conns :
        (proto[c] = "SOCKS5" /\ lpc[c]["c2u"] # "off")
            => /\ IsPrefix(<<5, 0, 5, 0, 0, 1, 0, 0, 0, 0, 0, 0>>, toCli[c])
               /\ IsPrefix(toCli[c], <<5, 0, 5, 0, 0, 1, 0, 0, 0, 0, 0, 0>> \o upData[c])
               /\ IsPrefix(toUp[c], AfterRequest(Sent(c)))
               /\ toUp[c] \o chunk[c]["c2u"] \o Stream(c) = AfterRequest(Sent(c))
                     \/ lpc[c]["c2u"] \in {"account", "werr"}
               /\ lpc[c]["c2u"] = "eof" => toUp[c] = AfterRequest(Sent(c))
               /\ lpc[c]["u2c"] = "eof"
                     => toCli[c] = <<5, 0, 5, 0, 0, 1, 0, 0, 0, 0, 0, 0>> \o upData[c]

\* C7 witness: a SOCKS5 CONNECT by domain name has relayed the two bytes the
\* client sent behind the request and the two bytes of the upstream, and
\* both loops have read to the end.
C7_Witness ==
    \E c \in Conns :
        /\ input[c] = In(Hello \o ReqDomain, <<1, 2>>, TRUE)
        /\ lpc[c]["c2u"] = "eof" /\ lpc[c]["u2c"] = "eof"
        /\ toUp[c] = <<1, 2>>
        /\ toCli[c] = MethodReply \o Socks5Success \o <<7, 8>>

RECURSIVE Written(_, _)
\* bytes the loops of direction d wrote, summed over the connections of S
Written(S, d) ==
    IF S = {} THEN 0
    ELSE LET c == CHOOSE x \in S : TRUE
         IN  wrote[c][d] + Written(S \ {c}, d)

AllClosed ==
    /\ \E c \in Conns : hpc[c] = "done"
    /\ \A c \in Conns : hpc[c] \in {"idle", "done"} /\ \A d \in Dirs : ~Running(lpc[c][d])

\* C8: once all connections have closed, total_bytes_sent is the number of
\* bytes the client-to-upstream loops wrote and total_bytes_received the
\* number the upstream-to-client loops wrote, over all connections.
C8_TotalsEqualBytesWritten ==
    AllClosed => /\ TotalBytesSent = Written(Conns, "c2u")
                 /\ TotalBytesReceived = Written(Conns, "u2c")

(***************************************************************************)
(* The broadcast worker's rate and latency.                                *)
(***************************************************************************)
\* the worker completes a publication in this step
Publishes == wpc = "fan" /\ wpc' = "select"

\* the worker handles a tick of the ticker in this step
HandlesTick == tickerChan = 1 /\ tickerChan' = 0

\* C9: any two consecutive publications of the broadcast worker are at least
\* one second apart, whether a wake signal or the ticker triggered them.
C9_PublicationsOneSecondApart == [][Publishes => sinceLast >= UnitsPerSecond]_vars

\* a subscriber that stays subscribed receives a snapshot that counts the
\* v-th admit
Delivered(v) ==
    \A w \in Subs :
        (TotalConnections >= v /\ w \in wsClients)
            ~> (w \notin wsClients \/ got[w] >= v)

\* every registry mutation is followed by a snapshot taken after it, and
\* that snapshot is written to the subscribers
EventuallyPublished ==
    /\ stale ~> ~stale
    /\ \A v \in 1 .. MaxAdmits : Delivered(v)

\* C10 as stated: a snapshot taken after a mutation is published to every
\* subscriber no later than the next tick -- when the worker handles a tick
\* and a mutation that has finished signalling is not in any snapshot yet,
\* that tick publishes -- also when the signal was dropped.
C10_PublishedByNextTick ==
    /\ [][(HandlesTick /\ stale /\ inFlight = 0) => wpc' = "broadcast"]_vars
    /\ EventuallyPublished

(***************************************************************************)
(* The subscribers and the writes to them.                                 *)
(***************************************************************************)
\* C11: a subscriber has received its seed message reporting the total T, a
\* connection is admitted after that, and the next message of the worker
\* that the subscriber receives reports a total greater than T.
C11_NextMessageCountsNewConnection ==
    [][\A w \in Subs :
          (cur = w /\ w \in served' /\ watch[w].armed) => msg > watch[w].seed]_vars

\* C13: at no moment are two writes in progress on one WebSocket
\* connection: the seed write of handleWebSocket never overlaps a write of
\* broadcastUpdate to the same subscriber.
C13_OneWriteAtATime ==
    \A w \in Subs : ~(spc[w] = "seedwriting" /\ cur = w)

\* C14: a write that is slow or never returns does not keep the other
\* subscribers from the snapshot: while a publication still owes a
\* subscriber its message, the write to that subscriber can start.
C14_NoHeadOfLineBlocking ==
    \A w \in Subs : (wpc = "fan" /\ w \in todo) => ENABLED BroadcastWriteBegin(w)

\* C15: a subscriber whose write fails in a publication is removed from
\* the subscriber set and closed, no publication writes to it afterwards,
\* and the publication goes on: it ends only when every remaining
\* subscriber has been written the message.
C15_FailedSubscriberRemoved ==
    /\ [](failed \cap wsClients = {} /\ failed \cap todo = {} /\ cur \notin failed)
    /\ [][failed' # failed => (wsClients' = wsClients \ failed' /\ todo' = todo)]_vars
    /\ [][Publishes => wsClients \subseteq served]_vars

\* C15 witness: a publication has ended in which the write to one subscriber
\* failed and the other subscriber was written the message.
C15_Witness ==
    /\ wpc = "select"
    /\ failed # {}
    /\ served # {}
    /\ wsClients = served

(***************************************************************************)
(* Signalling, dispatch and the engines' error paths.                      *)
(***************************************************************************)
\* C12: signalling never blocks a mutator: with the wake channel full and
\* no worker taking signals, addConnection, removeConnection and
\* updateBandwidth can still complete, and the channel never holds more
\* than its capacity.
C12_SignalNeverBlocks ==
    /\ broadcastChan \in 0 .. ChanCap
    /\ \A c \in Conns :
          /\ hpc[c] = "release" => ENABLED Release(c)
          /\ (hpc[c] = "http" /\ HeaderLen(Stream(c)) >= 0) => ENABLED HTTPRequest(c)
          /\ (hpc[c] = "socks5_request" /\ RequestLen(Stream(c)) >= 0)
                => ENABLED Socks5Request(c)
          /\ \A d \in Dirs : lpc[c][d] = "account" => ENABLED LoopAccount(c, d)

\* C12 witness: the wake channel is full and a connection has been admitted,
\* has accounted bytes and has been released, one more call than the
\* channel holds.
C12_Witness ==
    /\ broadcastChan = ChanCap
    /\ \E c \in Conns :
          /\ hpc[c] = "done"
          /\ hist[connID[c]].admits = 1
          /\ hist[connID[c]].releases = 1
          /\ TotalBytesReceived + TotalBytesSent >= ChanCap

\* C16: a connection is handed to the SOCKS5 engine exactly when its first
\* byte is 05, otherwise to the HTTP engine, and the engine starts reading
\* at that first byte.
C16_RoutedByFirstByte ==
    \A c \in Conns :
        /\ proto[c] # "" => (proto[c] = "SOCKS5" <=> Sent(c)[1] = 5)
        /\ hpc[c] \in {"socks5_methods", "http"}
              => /\ Stream(c) = Sent(c)
                 /\ hpc[c] = "socks5_methods" <=> Sent(c)[1] = 5

\* C16 witness: a connection whose first byte is 05 is at the start of the
\* SOCKS5 engine, the bytes the Peek has read still buffered in the reader.
C16_Witness ==
    \E c \in Conns :
        /\ hpc[c] = "socks5_methods"
        /\ rbuf[c] # <<>>
        /\ input[c].hdr = Hello \o ReqDomain

\* the request that follows the method negotiation in the client's bytes
RequestOf(c) == Drop(Sent(c), MethodsLen(Sent(c)))

NeverAdmitted(c) ==
    /\ hpc[c] \in {"peek", "socks5_methods", "socks5_request", "closeConn", "done"}
    /\ address[c] = NoAddress
    /\ hist[connID[c]].admits = 0
    /\ connID[c] \notin DOMAIN active
    /\ \A d \in Dirs : lpc[c][d] = "off"
    /\ toUp[c] = <<>>

\* a request with a version other than 05, a command other than CONNECT
\* (BIND, UDP ASSOCIATE) or an address type other than 01, 03, 04
BadRequest(c) ==
    /\ proto[c] = "SOCKS5"
    /\ MethodsLen(Sent(c)) >= 0
    /\ Len(RequestOf(c)) >= 4
    /\ \/ RequestOf(c)[1] # 5
       \/ RequestOf(c)[2] # 1
       \/ RequestOf(c)[4] \notin {1, 3, 4}

\* C17: a SOCKS5 request with command BIND or UDP ASSOCIATE, a version
\* other than 05 or an unknown address type is rejected: no dial, no record,
\* and the handler's next step ends the connection.
C17_BadRequestRejected ==
    /\ [](\A c \in Conns : BadRequest(c) => NeverAdmitted(c))
    /\ [][\A c \in Conns :
            (BadRequest(c) /\ hpc[c] = "socks5_request" /\ hpc'[c] # hpc[c])
                => hpc'[c] = "closeConn"]_vars

\* C17 witness: a connection with a UDP ASSOCIATE request has ended, the
\* method reply the only bytes written to the client.
C17_Witness ==
    \E c \in Conns :
        /\ input[c].hdr = Hello \o ReqUdpAssociate
        /\ hpc[c] = "done"
        /\ toCli[c] = <<5, 0>>

\* C18: a SOCKS5 request with address type 03 and a length byte of 0 is
\* rejected as a framing error: no dial and no record.
C18_EmptyDomainRejected ==
    \A c \in Conns :
        (/\ proto[c] = "SOCKS5"
         /\ MethodsLen(Sent(c)) >= 0
         /\ Len(RequestOf(c)) >= 5
         /\ RequestOf(c)[1] = 5 /\ RequestOf(c)[2] = 1
         /\ RequestOf(c)[4] = 3 /\ RequestOf(c)[5] = 0)
            => NeverAdmitted(c)

\* the handler is past a dial that failed
DialFailed(c) ==
    /\ hpc[c] \in {"release", "closeConn", "done"}
    /\ address[c] # NoAddress
    /\ lpc[c]["c2u"] = "off"
    /\ ~upClosed[c]

\* C19: when the dial of a SOCKS5 CONNECT fails the client is written
\* exactly 05 04 00 01 00 00 00 00 00 00 after the method reply, no relay
\* is started, the dial is not tried again, and the handler ends with the
\* record released.
C19_Socks5DialFailure ==
    /\ [](\A c \in Conns :
            (proto[c] = "SOCKS5" /\ DialFailed(c))
                => /\ toCli[c] = <<5, 0>> \o <<5, 4, 0, 1, 0, 0, 0, 0, 0, 0>>
                   /\ toUp[c] = <<>>
                   /\ \A d \in Dirs : lpc[c][d] = "off"
                   /\ hpc[c] \in {"closeConn", "done"}
                         => /\ hist[connID[c]].releases = 1
                            /\ connID[c] \notin DOMAIN active)
    /\ [][\A c \in Conns :
            (proto[c] = "SOCKS5" /\ hpc[c] \in {"release", "closeConn", "done"})
                => hpc'[c] \in {"release", "closeConn", "done"}]_vars

\* C19 witness: a SOCKS5 connection whose dial failed has ended, the error
\* reply written and the record released.
C19_Witness ==
    \E c \in Conns :
        /\ proto[c] = "SOCKS5"
        /\ DialFailed(c)
        /\ hpc[c] = "done"
        /\ toCli[c] = MethodReply \o Socks5HostUnreachable
        /\ hist[connID[c]].releases = 1

\* C20: for an HTTP CONNECT nothing is written to the client before the
\* dial has an outcome; after a successful dial the 200 line is the first
\* thing the client is written, before any relayed byte; a failed dial
\* gives the 502 reply and no relay; and the upstream is written bytes of
\* the tunnel only, never the CONNECT request.
C20_ConnectReplyFollowsDial ==
    \A c \in Conns :
        (proto[c] = "HTTP" /\ method[c] = 67)
            => /\ hpc[c] = "dial" => toCli[c] = <<>> /\ toUp[c] = <<>>
               /\ DialFailed(c)
                     => /\ toCli[c] = <<Reply502>>
                        /\ toUp[c] = <<>>
                        /\ \A d \in Dirs : lpc[c][d] = "off"
               /\ lpc[c]["c2u"] # "off"
                     => /\ IsPrefix(<<Reply200>>, toCli[c])
                        /\ IsPrefix(toCli[c], <<Reply200>> \o upData[c])
                        /\ \E i \in 0 .. Len(AfterHeader(Sent(c))) :
                              IsPrefix(toUp[c], Drop(AfterHeader(Sent(c)), i))

\* C20 witness: a CONNECT whose dial succeeded has relayed the upstream's
\* two bytes to the client behind the 200 line and tunnel bytes to the
\* upstream.
C20_Witness ==
    \E c \in Conns :
        /\ proto[c] = "HTTP" /\ method[c] = MethodCONNECT
        /\ toCli[c] = <<Reply200, 7, 8>>
        /\ toUp[c] = <<1, 2>>

(***************************************************************************)
(* The HTTP forward path and admission.                                    *)
(***************************************************************************)
\* the request of the client's bytes as the proxy forwards it: the header
\* up to its end, the line the serializer adds, and the header's end
ForwardedRequest(c) ==
    SubSeq(Sent(c), 1, Len(Sent(c)) - Len(AfterHeader(Sent(c))) - 1) \o <<1001, 10>>

\* C21: for an HTTP request other than CONNECT whose dial succeeded the
\* request is written to the upstream once, before either copy loop starts:
\* nothing is written upstream before, the upstream's bytes begin with the
\* request followed only by later client bytes, and the client is written
\* the upstream's response, all of it once the relay has read it to the end.
C21_RequestForwardedBeforeRelay ==
    \A c \in Conns :
        (proto[c] = "HTTP" /\ method[c] # 67)
            => /\ hpc[c] \in {"http", "dial"} => toUp[c] = <<>>
               /\ lpc[c]["c2u"] # "off"
                     => /\ IsPrefix(ForwardedRequest(c), toUp[c])
                        /\ \E i \in 0 .. Len(AfterHeader(Sent(c))) :
                              IsPrefix(Drop(toUp[c], Len(ForwardedRequest(c))),
                                       Drop(AfterHeader(Sent(c)), i))
                        /\ IsPrefix(toCli[c], upData[c])
                        /\ lpc[c]["u2c"] = "eof" => toCli[c] = upData[c]

\* C21 witness: a GET followed by two more client bytes was forwarded, the
\* upstream has the request and then later client bytes, and the client has
\* the upstream's two bytes.
C21_Witness ==
    \E c \in Conns :
        /\ input[c] = In(HttpGet, <<1, 2>>, TRUE)
        /\ Len(toUp[c]) > Len(ForwardedRequest(c))
        /\ lpc[c]["u2c"] = "eof"
        /\ toCli[c] = <<7, 8>>

\* C22: a client whose host is not in the admission set is closed before
\* any byte is read or written: it gets no connection id, no engine, no
\* dial and no copy loop, and no step of its handler changes
\* total_connections, the active map or the byte totals.
C22_BlockedClientClosedUnread ==
    /\ [](\A c \in Conns :
            (hpc[c] # "idle" /\ clientIP[c] # "127.0.0.1")
                => /\ hpc[c] \in {"closeConn", "done"}
                   /\ connID[c] = NoId
                   /\ proto[c] = "" /\ address[c] = NoAddress
                   /\ cli[c] = Sent(c) /\ rbuf[c] = <<>>
                   /\ toCli[c] = <<>> /\ toUp[c] = <<>>
                   /\ \A d \in Dirs : lpc[c][d] = "off")
    /\ [][\A c \in Conns :
            (clientIP'[c] # "127.0.0.1" /\ hpc'[c] # hpc[c]) => UNCHANGED regVars]_vars

\* C22 witness: a client from another host that sent a SOCKS5 handshake has
\* been closed.
C22_Witness ==
    \E c \in Conns :
        /\ clientIP[c] # "127.0.0.1" /\ clientIP[c] # ""
        /\ hpc[c] = "done"
        /\ cliClosed[c]
        /\ Sent(c) # <<>>

(***************************************************************************)
(* The registry: mutators and snapshots.                                   *)
(***************************************************************************)
\* C23: an account or a release for an id that is not in the registry
\* leaves every record, total_connections and the byte totals unchanged,
\* and the copy loop that issued the account goes on as its write decided.
C23_UnknownIdIsNoOp ==
    [][\A c \in Conns :
          /\ (hpc[c] = "release" /\ hpc'[c] # "release" /\ connID[c] \notin DOMAIN active)
                => UNCHANGED regVars /\ hpc'[c] = "closeConn"
          /\ \A d \in Dirs :
                (lpc[c][d] = "account" /\ lpc'[c][d] # "account"
                   /\ connID[c] \notin DOMAIN active)
                    => /\ UNCHANGED regVars
                       /\ lpc'[c][d] = IF wres[c][d].brk THEN "werr" ELSE "read"]_vars

\* C23 witness: a connection was admitted once and released, the loop
\* started with go has accounted after the release and read on to the end of
\* the client's bytes.
C23_Witness ==
    \E c \in Conns :
        /\ connID[c] # NoId
        /\ hist[connID[c]].admits = 1
        /\ hist[connID[c]].releases = 1
        /\ hist[connID[c]].late
        /\ lpc[c]["c2u"] = "eof"

ZeroRecord(r) ==
    /\ r.BytesReceived = 0 /\ r.BytesSent = 0
    /\ r.BandwidthIn = 0 /\ r.BandwidthOut = 0
    /\ r.WindowBytesIn = 0 /\ r.WindowBytesOut = 0
    /\ r.WindowStartTime = -1 /\ r.LastUpdateTime = -1

\* C24: addConnection(id, ...) inserts a record for id with zero bytes,
\* zero rates and an unset rate window, adds exactly one to
\* total_connections, and leaves the byte totals and the records of all
\* other ids unchanged.
C24_AdmitFrame ==
    [][\A c \in Conns :
          (hpc[c] = "accepted" /\ hpc'[c] = "admitted")
              => /\ DOMAIN active' = DOMAIN active \cup {connID[c]}
                 /\ ZeroRecord(active'[connID[c]])
                 /\ TotalConnections' = TotalConnections + 1
                 /\ TotalBytesReceived' = TotalBytesReceived
                 /\ TotalBytesSent' = TotalBytesSent
                 /\ \A j \in DOMAIN active \ {connID[c]} : active'[j] = active[j]]_vars

\* C24 witness: a second connection has just been admitted next to a record
\* that has counted bytes and a rate.
C24_Witness ==
    /\ TotalConnections = 2
    /\ \E i, j \in DOMAIN active :
          /\ i # j
          /\ ZeroRecord(active[i])
          /\ active[j].BytesReceived > 0 /\ active[j].BandwidthIn > 0

\* C25: the bytes_in and bytes_out reported for a connection id never
\* decrease, and total_connections, total_bytes_received and
\* total_bytes_sent never decrease.
C25_CountersMonotonic ==
    [][/\ \A id \in DOMAIN getStats.ActiveConnections \cap DOMAIN getStats'.ActiveConnections :
            /\ getStats'.ActiveConnections[id].BytesReceived
                  >= getStats.ActiveConnections[id].BytesReceived
            /\ getStats'.ActiveConnections[id].BytesSent
                  >= getStats.ActiveConnections[id].BytesSent
       /\ getStats'.TotalConnections >= getStats.TotalConnections
       /\ getStats'.TotalBytesReceived >= getStats.TotalBytesReceived
       /\ getStats'.TotalBytesSent >= getStats.TotalBytesSent]_vars

\* C26: total_connections is the number of connections whose engine yielded
\* a destination, each counted once whether the dial then succeeds or
\* fails; after an HTTP request it is at least 1.
C26_TotalCountsDestinations ==
    /\ TotalConnections = Cardinality({c \in Conns : address[c] # NoAddress})
    /\ \A c \in Conns : (proto[c] = "HTTP" /\ address[c] # NoAddress) => getStats.TotalConnections >= 1

\* C26 witness: two connections have been counted, one whose dial failed
\* and one in relay.
C26_Witness ==
    /\ TotalConnections = 2
    /\ \E c1, c2 \in Conns :
          /\ hpc[c1] = "done" /\ address[c1] # NoAddress /\ ~upClosed[c1]
          /\ hpc[c2] = "relay"

\* the record's last update lies more than 2 seconds before now
Idle(r) == r.LastUpdateTime # -1 /\ now - r.LastUpdateTime > 2 * UnitsPerSecond

\* C27: a snapshot reports rate_in = rate_out = 0 for every record whose
\* last update is more than 2 seconds before the snapshot, and taking a
\* snapshot changes nothing stored in the registry.
C27_IdleRatesZeroInSnapshot ==
    /\ [](\A id \in DOMAIN active :
            Idle(active[id])
                => /\ getStats.ActiveConnections[id].BandwidthIn = 0
                   /\ getStats.ActiveConnections[id].BandwidthOut = 0)
    /\ [][snap' # snap => UNCHANGED regVars]_vars

\* C27 witness: a snapshot has been taken and a record with a stored rate
\* above zero is idle and reported with rate zero.
C27_Witness ==
    /\ snap > 0
    /\ \E id \in DOMAIN active :
          /\ Idle(active[id])
          /\ active[id].BandwidthIn > 0
          /\ getStats.ActiveConnections[id].BandwidthIn = 0

\* C28: the first account after more than 2 seconds without one recomputes
\* the rates from the bytes of the current window over the window's
\* duration; the rate of the direction that carried bytes is above zero, and
\* a snapshot taken then reports that rate.
C28_RateRecomputedOnResume ==
    [][\A id \in DOMAIN active \cap DOMAIN active' :
          (Idle(active[id]) /\ active'[id] # active[id]
             /\ active'[id].BytesReceived + active'[id].BytesSent
                   > active[id].BytesReceived + active[id].BytesSent)
              => LET r == active[id]
                     in == r.WindowBytesIn + active'[id].BytesReceived - r.BytesReceived
                     out == r.WindowBytesOut + active'[id].BytesSent - r.BytesSent
                     rateIn == (in * UnitsPerSecond * RateScale) \div (now - r.WindowStartTime)
                     rateOut == (out * UnitsPerSecond * RateScale) \div (now - r.WindowStartTime)
                 IN  /\ active'[id].BandwidthIn = rateIn
                     /\ active'[id].BandwidthOut = rateOut
                     /\ active'[id].BytesReceived > r.BytesReceived => rateIn > 0
                     /\ active'[id].BytesSent > r.BytesSent => rateOut > 0
                     /\ getStats'.ActiveConnections[id].BandwidthIn = rateIn
                     /\ getStats'.ActiveConnections[id].BandwidthOut = rateOut]_vars

\* C28 witness: a record whose window began at time 0 was accounted at time
\* MaxTime after more than 2 seconds without an account: its rates are those
\* of 2 bytes in and 1 byte out over the whole window.
C28_Witness ==
    \E id \in DOMAIN active :
        /\ now = MaxTime
        /\ active[id].LastUpdateTime = MaxTime
        /\ active[id].BytesReceived = 2 /\ active[id].BytesSent = 1
        /\ active[id].BandwidthIn = Rate(2, MaxTime)
        /\ active[id].BandwidthOut = Rate(1, MaxTime)

RECURSIVE Total(_, _)
Total(f, field) ==
    IF DOMAIN f = {} THEN 0
    ELSE LET i == CHOOSE i \in DOMAIN f : TRUE
         IN  f[i][field] + Total([j \in DOMAIN f \ {i} |-> f[j]], field)

\* C29: in every snapshot current_bandwidth_in and current_bandwidth_out are
\* the sums of the rates the snapshot reports for its records, an idle
\* record counting as zero.
C29_AggregateIsSumOfReported ==
    /\ getStats.CurrentBandwidthIn = Total(getStats.ActiveConnections, "BandwidthIn")
    /\ getStats.CurrentBandwidthOut = Total(getStats.ActiveConnections, "BandwidthOut")

\* C29 witness: a snapshot has been taken while an idle record with a stored
\* rate stands next to a second record, and the aggregate is zero.
C29_Witness ==
    /\ snap > 0
    /\ Cardinality(DOMAIN active) = 2
    /\ \E id \in DOMAIN active : Idle(active[id]) /\ active[id].BandwidthOut > 0
    /\ getStats.CurrentBandwidthOut = 0

\* C30: every snapshot is of one registry state: total_bytes_received is at
\* least the sum of bytes_received over its records, likewise for sent, and
\* it has at most total_connections records.
C30_SnapshotConsistent ==
    /\ getStats.TotalBytesReceived >= Total(getStats.ActiveConnections, "BytesReceived")
    /\ getStats.TotalBytesSent >= Total(getStats.ActiveConnections, "BytesSent")
    /\ Cardinality(DOMAIN getStats.ActiveConnections) <= getStats.TotalConnections

\* C30 witness: a snapshot has been taken with a record that has counted
\* bytes, after another record with bytes was released.
C30_Witness ==
    /\ snap > 0
    /\ Total(active, "BytesReceived") >= 1
    /\ TotalBytesReceived > Total(active, "BytesReceived")

(***************************************************************************)
(* Termination of a connection whose client has gone.                      *)
(***************************************************************************)
\* both sockets closed, the record released and the handler returned
Terminated(c) ==
    /\ hpc[c] = "done"
    /\ cliClosed[c] /\ upClosed[c]
    /\ connID[c] \notin DOMAIN active

\* C31: once the client has closed its socket and the client-to-upstream
\* loop has ended on it, the connection eventually terminates: the
\* upstream-to-client loop ends, both sockets are closed and the record is
\* released, also when the upstream sends nothing more and never closes.
C31_ClientCloseTerminates ==
    \A c \in {1} :
        (hpc[c] = "relay" /\ lpc[c]["c2u"] = "eof") ~> Terminated(c)

(***************************************************************************)
(* What one connection's registry calls do to the other connections.       *)
(***************************************************************************)
\* the connection has been admitted and has not released its record
Live(c) == hpc[c] \in {"dial", "relay", "closeDest", "release"}

\* the step is taken by another task than connection c's handler and loops,
\* and it is no admit
OthersStep(c) ==
    /\ hpc'[c] = hpc[c] /\ lpc'[c] = lpc[c]
    /\ TotalConnections' = TotalConnections

\* C32: an account, a release or an error that ends one connection leaves
\* the record of every other live connection as it was: present, with the
\* same counters and rates.
C32_OtherRecordsUnchanged ==
    [][\A c \in Conns :
          (Live(c) /\ OthersStep(c) /\ connID[c] \in DOMAIN active)
              => /\ connID[c] \in DOMAIN active'
                 /\ active'[connID[c]] = active[connID[c]]]_vars

(***************************************************************************)
(* SOCKS5 method negotiation.                                              *)
(***************************************************************************)
\* the bytes the client sends in all
Sends(c) == input[c].hdr \o input[c].payload

\* the client's stream holds a whole method-selection message
HelloComplete(s) == Len(s) >= 2 /\ Len(s) >= 2 + s[2]

\* C33: the SOCKS5 engine takes the two header bytes and exactly NMETHODS
\* method bytes from the stream, answers 05 00 whatever methods are offered
\* (none at all, or none of them 00), and goes on to read the request; a
\* stream that ends inside the message gets no answer.
C33_MethodReplyRegardlessOfMethods ==
    [][\A c \in {1} :
          (hpc[c] = "socks5_methods" /\ hpc'[c] # hpc[c])
              => IF HelloComplete(Sends(c))
                 THEN /\ hpc'[c] = "socks5_request"
                      /\ toCli'[c] = toCli[c] \o <<socks5Version, noAuth>>
                      /\ rbuf'[c] \o cli'[c] = Drop(Sends(c), 2 + Sends(c)[2])
                 ELSE /\ hpc'[c] = "closeConn"
                      /\ toCli'[c] = toCli[c]]_vars

\* the reply has been sent to a client that offered no method, and to a
\* client that offered two methods, neither of them 00
C33_Witness ==
    /\ hpc[1] = "socks5_request"
    /\ toCli[1] = <<socks5Version, noAuth>>
    /\ Sends(1)[2] = 0 \/ (Sends(1)[2] = 2 /\ Sends(1)[3] # noAuth /\ Sends(1)[4] # noAuth)

(***************************************************************************)
(* The rate window of a record.                                            *)
(***************************************************************************)
\* the step is an account on the record stored under id
AccountStep(id) ==
    /\ id \in DOMAIN active /\ id \in DOMAIN active'
    /\ active'[id].BytesReceived + active'[id].BytesSent
          > active[id].BytesReceived + active[id].BytesSent

\* how long the window of the record has lasted at time t
Span(r, t) == IF r.WindowStartTime = ZeroTime THEN 0 ELSE t - r.WindowStartTime

\* C34: an account on a record whose window has lasted at least 1 second
\* sets both rates to the bytes of the window, those of this account
\* included, over the time the window has lasted, and starts a new window
\* (its start is the time of the account, its counters are zero); an account
\* on a window that has lasted less than 1 second keeps the window's start
\* and adds its bytes to the window's counters.
C34_WindowResetAfterOneSecond ==
    [][\A id \in Ids :
          AccountStep(id)
              => LET r == active[id]
                     q == active'[id]
                     in == r.WindowBytesIn + q.BytesReceived - r.BytesReceived
                     out == r.WindowBytesOut + q.BytesSent - r.BytesSent
                     d == Span(r, now)
                 IN  IF d >= UnitsPerSecond
                     THEN /\ q.BandwidthIn = (in * UnitsPerSecond * RateScale) \div d
                          /\ q.BandwidthOut = (out * UnitsPerSecond * RateScale) \div d
                          /\ q.WindowStartTime = now
                          /\ q.WindowBytesIn = 0 /\ q.WindowBytesOut = 0
                     ELSE /\ r.WindowStartTime # ZeroTime
                               => q.WindowStartTime = r.WindowStartTime
                          /\ q.WindowBytesIn = in /\ q.WindowBytesOut = out]_vars

\* C34 witness: a record that has counted two bytes or more has just been
\* accounted and its window has been started anew: the window began at the
\* time of the account, its counters are zero and a rate is above zero.
C34_Witness ==
    \E id \in DOMAIN active :
        /\ active[id].WindowStartTime = now /\ active[id].LastUpdateTime = now
        /\ active[id].WindowBytesIn = 0 /\ active[id].WindowBytesOut = 0
        /\ active[id].BytesReceived + active[id].BytesSent >= 2
        /\ active[id].BandwidthIn + active[id].BandwidthOut > 0

\* the record has never been accounted since its admission
FirstAfterAdmit(r) == r.WindowStartTime = ZeroTime

\* the last account on the record has started its window anew and no bytes
\* have been added since (every account carries at least one byte)
FirstAfterReset(r) ==
    r.WindowStartTime # ZeroTime /\ r.WindowBytesIn = 0 /\ r.WindowBytesOut = 0

\* C35: the first account after the admission and the first account after a
\* window reset set the window's start to the time of that account and count
\* the bytes of the account from zero (the counters hold the bytes of this
\* account, or nothing when the account itself ends the window).
C35_WindowStartsAtFirstAccount ==
    [][\A id \in Ids :
          (AccountStep(id) /\ (FirstAfterAdmit(active[id]) \/ FirstAfterReset(active[id])))
              => LET r == active[id]
                     q == active'[id]
                 IN  /\ q.WindowStartTime = now
                     /\ q.WindowBytesIn \in {0, q.BytesReceived - r.BytesReceived}
                     /\ q.WindowBytesOut \in {0, q.BytesSent - r.BytesSent}]_vars

\* C35 as amended: the first account after the admission sets the window's
\* start to the time of that account and the counters to the bytes of the
\* account; the first account after a window reset that comes less than 1
\* second after it keeps the start the reset has set (the time of the account
\* that reset the window) and sets the counters to the bytes of the account.
C35_WindowStartsAtFirstAccountOrReset ==
    [][\A id \in Ids :
          AccountStep(id)
              => LET r == active[id]
                     q == active'[id]
                 IN  /\ FirstAfterAdmit(r)
                           => /\ q.WindowStartTime = now
                              /\ q.WindowBytesIn = q.BytesReceived - r.BytesReceived
                              /\ q.WindowBytesOut = q.BytesSent - r.BytesSent
                     /\ (FirstAfterReset(r) /\ now - r.WindowStartTime < UnitsPerSecond)
                           => /\ q.WindowStartTime = r.WindowStartTime
                              /\ q.WindowBytesIn = q.BytesReceived - r.BytesReceived
                              /\ q.WindowBytesOut = q.BytesSent - r.BytesSent]_vars

\* C35 witness: a record was accounted, accounted again a second or more
\* later, which reset its window, and has now been accounted a third time,
\* after the reset: the window began before this account and holds its byte.
C35_Witness ==
    \E id \in DOMAIN active :
        /\ active[id].LastUpdateTime = now
        /\ active[id].WindowStartTime # ZeroTime
        /\ active[id].WindowStartTime < now
        /\ active[id].WindowBytesIn + active[id].WindowBytesOut = 1
        /\ active[id].BytesReceived + active[id].BytesSent = 3

(***************************************************************************)
(* The locks: stats.mutex and wsMutex.                                     *)
(***************************************************************************)
\* the statements that write registry state, and those that only read it
RegistryWrites == {"addBody", "accBody", "relBody"}
RegistryReads == {"genid", "statsCopy"}

\* C36: a task that is about to read or write registry state (the active
\* map, the totals, a record) holds the registry lock: for writing when it
\* writes, for reading or writing when it reads.
C36_RegistryAccessUnderLock ==
    \A t \in Tasks :
        /\ tpc[t] \in RegistryWrites => "W" \in locks[t]
        /\ tpc[t] \in RegistryReads => locks[t] \cap {"W", "R"} # {}

\* the statements at which a task asks for stats.mutex
StatsLockStatements == {"addLock", "relay", "statsRLock"}

\* C37: while the reverse DNS lookup of a connection's addConnection is
\* pending, that connection holds no lock, and every other task that asks
\* for the registry lock (to admit, account, release or take a snapshot)
\* gets it as soon as no third task holds it.
C37_LookupBlocksNoOne ==
    \A c \in Conns :
        tpc[ConnTask(c)] = "lookup"
            => /\ locks[ConnTask(c)] = {}
               /\ \A t \in Tasks \ {ConnTask(c)} :
                     (/\ tpc[t] \in StatsLockStatements
                      /\ \A u \in Tasks \ {ConnTask(c)} : locks[u] \cap {"W", "R"} = {})
                         => ENABLED LkTask(t)

\* C37 witness: the lookup of one connection is pending; it took its id
\* while the other connection was in the registry, and since then, with the
\* lookup pending, the other connection has released its record and returned.
C37_Witness ==
    \E c \in Conns, o \in Conns :
        /\ c # o
        /\ tpc[ConnTask(c)] = "lookup"
        /\ connID[c] = <<now, 1>>
        /\ tpc[ConnTask(o)] = "closed"
        /\ active = <<>>
        /\ wrote[o]["u2c"] > 0
        /\ snap > 0

(***************************************************************************)
(* Writers of a connection's two sockets.                                  *)
(***************************************************************************)
\* the handler is at a statement that writes to a socket before the relay:
\* the method reply, or the dial's reply and the forwarded request
HandlerWrites(c) == hpc[c] \in {"socks5_methods", "dial"}

\* the tasks of connection c that are at a write to the socket
Writers(c, socket) ==
    (IF HandlerWrites(c) THEN {"handler"} ELSE {})
        \cup {d \in Dirs : lpc[c][d] = "write" /\ LoopDst(d) = socket}

\* C38: at most one task at a time is writing to a connection's client
\* socket and at most one to its upstream socket, and every byte that
\* arrives on a socket is written by that task: the handler's replies and
\* the forwarded request are written while no copy loop runs, and after them
\* the upstream-to-client loop alone writes to the client and the
\* client-to-upstream loop alone to the upstream.
C38_OneWriterPerSocket ==
    /\ [](\A c \in {1} :
            /\ Cardinality(Writers(c, "client")) <= 1
            /\ Cardinality(Writers(c, "upstream")) <= 1
            /\ HandlerWrites(c) => \A d \in Dirs : lpc[c][d] = "off")
    /\ [][\A c \in {1} :
            /\ toCli'[c] # toCli[c]
                  => \/ HandlerWrites(c)
                     \/ lpc[c]["u2c"] = "write" /\ lpc'[c]["u2c"] # "write"
            /\ toUp'[c] # toUp[c]
                  => \/ HandlerWrites(c)
                     \/ lpc[c]["c2u"] = "write" /\ lpc'[c]["c2u"] # "write"]_vars

\* C38 witness: the handler has written its reply to the client and the two
\* loops are both at a write, each to its own socket.
C38_Witness ==
    /\ toCli[1] # <<>>
    /\ lpc[1]["c2u"] = "write" /\ lpc[1]["u2c"] = "write"
    /\ Writers(1, "client") = {"u2c"} /\ Writers(1, "upstream") = {"c2u"}

\* the statements at which a task asks for wsMutex
WsLockStatements == {"wsLock", "delLock"}

\* C39: no task holds the registry lock (stats.mutex, for reading or for
\* writing) and the subscriber-set lock (wsMutex) at the same time, and no
\* task that holds one of them is at a statement that asks for the other;
\* whenever a task waits for one of the locks, some task can take a step.
C39_LocksNeverNested ==
    /\ \A t \in Tasks :
          /\ ~("ws" \in locks[t] /\ locks[t] \cap {"W", "R"} # {})
          /\ "ws" \in locks[t] => tpc[t] \notin StatsLockStatements
          /\ locks[t] \cap {"W", "R"} # {} => tpc[t] \notin WsLockStatements
    /\ (\E t \in Tasks : tpc[t] \in {"addLock", "statsRLock"} \cup WsLockStatements)
          => ENABLED NextLocks

\* C39 witness: the broadcast worker holds wsMutex for its writes while a
\* connection holds stats.mutex in addConnection and the WebSocket handler
\* waits for wsMutex.
C39_Witness ==
    /\ "ws" \in locks[WorkerTask]
    /\ \E c \in Conns : "W" \in locks[ConnTask(c)] /\ tpc[ConnTask(c)] = "addBody"
    /\ \E w \in BroadcastSubs : tpc[WsTask(w)] \in WsLockStatements

(***************************************************************************)
(* The worker's pendingUpdate.                                             *)
(***************************************************************************)
\* the worker takes a signal from broadcastChan
TakesWake == broadcastChan' = broadcastChan - 1

\* the worker takes a tick from ticker.C
TakesTick == tickerChan = 1 /\ tickerChan' = 0

\* C40: the worker publishes only when it has received a wake signal since
\* its previous publication: pendingUpdate becomes true only when a signal
\* is taken from broadcastChan, a publication starts only with pendingUpdate
\* true, a tick taken with pendingUpdate false publishes nothing (the worker
\* goes back to its select and no subscriber receives anything), and
\* pendingUpdate is false when a publication has ended.
C40_PublishesOnlyWhenPending ==
    [][/\ (~pendingUpdate /\ pendingUpdate') => TakesWake
       /\ (wpc = "select" /\ wpc' # "select") => pendingUpdate'
       /\ (TakesTick /\ ~pendingUpdate)
             => wpc' = "select" /\ UNCHANGED <<pendingUpdate, msg, got, sinceLast>>
       /\ (wpc # "select" /\ wpc' = "select") => ~pendingUpdate'
       /\ (wpc # "select" /\ wpc' # "select") => pendingUpdate']_vars

\* C40 witness: a publication has ended and, half a second after it, with no
\* wake signal received since, the worker has taken a tick and has gone back
\* to its select without publishing.
C40_Witness ==
    /\ wpc = "select" /\ ~pendingUpdate
    /\ phase = 0 /\ tickerChan = 0
    /\ sinceLast = 1
    /\ \E w \in BroadcastSubs : got[w] >= 0

=============================================================================
